---- MODULE Spec2Model ----
(***************************************************************************)
(* and-desk: two SPI displays (ILI9341, ST7735) and one XPT2046 touch       *)
(* controller on one shared bus (display_driver.py), driven by the control  *)
(* loop of ui-both-displays.py.                                             *)
(*                                                                          *)
(* The module holds several specifications over one set of variables:       *)
(*   SpecRgb    the RGB888 -> RGB565 encoders, pixel by pixel               *)
(*   SpecPixel  image() on small panels with concrete frames                *)
(*   SpecTouch  the 8-sample channel filter of _raw_touch                   *)
(*   SpecCal    read_touch's calibration map over calibration profiles      *)
(*   SpecBus    several threads calling the driver on the shared bus        *)
(*   Spec       main() of ui-both-displays.py, one thread, real panels      *)
(***************************************************************************)
EXTENDS Integers, Sequences, FiniteSets, TLC

\* ------------------------------------------------------------------------
\* Bounds of the model
\* ------------------------------------------------------------------------
\* worker threads of SpecBus (thread 0 is main())
NumWorkers == 2
\* largest panel, in pixels, of SpecPixel
MaxPixels == 4
\* ADC answers an acquisition of SpecTouch can draw from
NumProbes == 3
\* longest region list of SpecHit
MaxRegions == 2
\* the time main() is followed for, in ms after its start
MaxTime == 500
\* the time a focus session is followed for, in ms after its start
MaxSession == 130000

\* ------------------------------------------------------------------------
\* Program constants (display_driver.py)
\* ------------------------------------------------------------------------
ILI_CS == 8
ILI_DC == 25
ILI_RST == 24
ILI_BL == 18
ST_CS == 5
ST_DC == 23
ST_RST == 4
T_CS == 7
T_IRQ == 17

SCREEN_W == 320
SCREEN_H == 240

ILI9341_W == 320
ILI9341_H == 240
ILI9341_SPD == 40000000
ST7735_W == 160
ST7735_H == 128
ST7735_SPD == 15000000
TOUCH_SPD == 1000000
SPI_INIT_SPD == 40000000
CHUNK == 4096
NSAMPLES == 8

TOUCH_X_CMD == 144
TOUCH_Y_CMD == 208

CAL_X_MIN == 445
CAL_X_MAX == 3492
CAL_Y_MIN == 606
CAL_Y_MAX == 3615
CAL_SWAP_XY == FALSE
CAL_FLIP_X == FALSE
CAL_FLIP_Y == FALSE
TOUCH_IRQ_ACTIVE_HIGH == FALSE

\* DEBOUNCE_MS of ui-both-displays.py
DEBOUNCE_MS == 300
ILI_REFRESH_HZ == 10
ST_REFRESH_S == 5
\* focus_session_mins of AppState
focus_session_mins == 25
\* time.time() * 1000 when main() starts, counted from the model's origin:
\* later than every interval the program compares against a timestamp of 0
Epoch == 1000000

HIGH == "HIGH"
LOW == "LOW"
\* Python's None where a point (x, y) is expected
NoPoint == <<>>

\* ------------------------------------------------------------------------
\* Python integer operators, bit by bit
\* ------------------------------------------------------------------------
RECURSIVE BitAnd(_, _)
BitAnd(a, b) ==
    IF a = 0 \/ b = 0 THEN 0
    ELSE (IF a % 2 = 1 /\ b % 2 = 1 THEN 1 ELSE 0) + 2 * BitAnd(a \div 2, b \div 2)

RECURSIVE BitOr(_, _)
BitOr(a, b) ==
    IF a = 0 THEN b
    ELSE IF b = 0 THEN a
    ELSE (IF a % 2 = 1 \/ b % 2 = 1 THEN 1 ELSE 0) + 2 * BitOr(a \div 2, b \div 2)

Shl(a, n) == a * 2^n
Shr(a, n) == a \div 2^n

Min(a, b) == IF a < b THEN a ELSE b
Max(a, b) == IF a > b THEN a ELSE b

RECURSIVE SeqSum(_)
SeqSum(s) == IF s = <<>> THEN 0 ELSE Head(s) + SeqSum(Tail(s))

IsPrefix(s, t) == Len(s) <= Len(t) /\ SubSeq(t, 1, Len(s)) = s

\* ------------------------------------------------------------------------
\* RGB888 -> RGB565, as each image() computes it
\* ------------------------------------------------------------------------
\* a plausible slip: green masked like red (0xF8), losing its sixth bit
ST7735_rgb565_GreenMask5(r, g, b) ==
    BitOr(BitOr(Shl(BitAnd(r, 248), 8), Shl(BitAnd(g, 248), 3)), Shr(b, 3))

\* c = ((r & 0xF8) << 8) | ((g & 0xFC) << 3) | (b >> 3)
ILI9341_rgb565(r, g, b) ==
    BitOr(BitOr(Shl(BitAnd(r, 248), 8), Shl(BitAnd(g, 252), 3)), Shr(b, 3))

ST7735_rgb565(r, g, b) ==
    BitOr(BitOr(Shl(BitAnd(r, 248), 8), Shl(BitAnd(g, 252), 3)), Shr(b, 3))

rgb565(d, p) ==
    IF d = "ILI" THEN ILI9341_rgb565(p[1], p[2], p[3])
    ELSE ST7735_rgb565(p[1], p[2], p[3])

\* a plausible slip: the low byte put first
RECURSIVE PackLoop_LowFirst(_, _, _)
PackLoop_LowFirst(d, px, i) ==
    IF i > Len(px) THEN <<>>
    ELSE LET c == rgb565(d, px[i])
         IN  <<BitAnd(c, 255), Shr(c, 8)>> \o PackLoop_LowFirst(d, px, i + 1)

\* buf[i*2] = c >> 8 ; buf[i*2 + 1] = c & 0xFF, for i in range(W*H)
RECURSIVE PackLoop(_, _, _)
PackLoop(d, px, i) ==
    IF i > Len(px) THEN <<>>
    ELSE LET c == rgb565(d, px[i])
         IN  <<Shr(c, 8), BitAnd(c, 255)>> \o PackLoop(d, px, i + 1)

\* ------------------------------------------------------------------------
\* State
\* ------------------------------------------------------------------------
VARIABLES
    \* display_driver.py module state: _lock, _spi.max_speed_hz, the GPIO lines
    lock, speed, gpio, irq, spi,
    \* the last movement of bytes on the bus, and which displays are switched on
    wire, ready,
    \* per thread: position, driver call, its pending steps and locals
    pc, call, queue, cur, idx, vals, rbuf, chv, res, tr,
    \* static configuration and environment: panel sizes, calibration, the
    \* answers of the touch ADC, the frame the content layer hands out
    panel, cal, adc, content,
    \* main() of ui-both-displays.py
    mpc, pt,
    \* AppState: the router's fields, and what handle_touch returned last
    screen, apps_rects, clean_done, focus_active, focus_elapsed_mins, focus_message,
    changed,
    \* time.time() in ms, and the timestamps main() and tick_focus() keep
    clock, last_touch_ms, focus_last_tick, loop_start,
    \* main(): last_st_update, and now as read after the ILI9341 push
    last_st_update, now,
    \* the steps of the running cycle, the screen whose frame was requested
    \* last, the screen whose frame was pushed last
    cyc, built, shown,
    \* the hit_test probe
    regions, hit,
    \* history: how often the screen has changed since the pen last moved
    held,
    \* the single-pixel encoder probe
    pixel, enc, c565

busVars == <<lock, speed, gpio, spi, wire, ready>>
thVars == <<pc, call, queue, cur, idx, vals, rbuf, chv, res, tr>>
cfgVars == <<panel, cal, content>>
envVars == <<irq, adc>>
uiVars == <<screen, apps_rects, clean_done, focus_active, focus_elapsed_mins,
           focus_message, changed>>
stVars == <<last_st_update, now>>
clkVars == <<clock, last_touch_ms, focus_last_tick, loop_start, stVars>>
cycVars == <<cyc, built, shown>>
hitVars == <<regions, hit>>
mainVars == <<mpc, pt, uiVars, clkVars, cycVars, hitVars, held>>
rgbVars == <<pixel, enc, c565>>
vars == <<busVars, thVars, cfgVars, envVars, mainVars, rgbVars>>

WorkerNames == <<"w1", "w2", "w3", "w4">>
Workers == {WorkerNames[i] : i \in 1..NumWorkers}
Threads == {"main"} \cup Workers
Displays == {"ILI", "ST"}

CS(d) == IF d = "ILI" THEN ILI_CS ELSE ST_CS
DC(d) == IF d = "ILI" THEN ILI_DC ELSE ST_DC
RST(d) == IF d = "ILI" THEN ILI_RST ELSE ST_RST
SPD(d) == IF d = "ILI" THEN ILI9341_SPD ELSE ST7735_SPD
W(d) == panel[d][1]
H(d) == panel[d][2]

CsPins == {ILI_CS, ST_CS, T_CS}
\* for pin in [ILI_CS, ILI_DC, ILI_RST, ILI_BL, ST_CS, ST_DC, ST_RST, T_CS]
OutPins == {ILI_CS, ILI_DC, ILI_RST, ILI_BL, ST_CS, ST_DC, ST_RST, T_CS}
Selected == {p \in CsPins : gpio[p] = LOW}

\* a plausible slip: data[0:4096] in every turn of the loop
Slice_FromStart(data, i, n) ==
    IF data.bytes = <<>> THEN <<>> ELSE SubSeq(data.bytes, 1, n)

\* a payload: its bytes and its length; a pixel buffer of a real panel keeps
\* its length only (bytes = << >>)
Lit(bytes) == [bytes |-> bytes, len |-> Len(bytes)]
Buf(bytes, n) == [bytes |-> bytes, len |-> n]
Slice(data, i, n) ==
    IF data.bytes = <<>> THEN <<>> ELSE SubSeq(data.bytes, i + 1, i + n)

\* the steps a driver call is made of
Step(kind, pin, dcp, dcm, data, spd, arg) ==
    [kind |-> kind, pin |-> pin, dcp |-> dcp, dcm |-> dcm,
     bytes |-> data.bytes, len |-> data.len, speed |-> spd, arg |-> arg]
NoStep == Step("none", 0, 0, FALSE, Lit(<<>>), 0, 0)
GpioOut(pin, level) == <<Step("gpio", pin, 0, level = HIGH, Lit(<<>>), 0, 0)>>
Sleep(ms) == <<Step("sleep", 0, 0, FALSE, Lit(<<>>), 0, ms)>>

\* an entry of a call's trace: a line driven, a sleep, or one chip-select
\* bracket with the bytes moved inside it
Ev(kind, pin, level, bytes, n, spd, open) ==
    [kind |-> kind, pin |-> pin, level |-> level, bytes |-> bytes, n |-> n,
     speed |-> spd, open |-> open]

NoCall == [fn |-> "none", disp |-> "none", w |-> 0, h |-> 0, px |-> <<>>, img |-> <<>>]
NoWire == [by |-> "none", holder |-> "none", sel |-> {}, speed |-> 0,
           dcl |-> HIGH, bytes |-> <<>>, n |-> 0, off |-> 0]

\* ------------------------------------------------------------------------
\* Low-level SPI helpers (display_driver.py 64-82)
\* ------------------------------------------------------------------------
_write_bytes(cs_pin, dc_pin, dc_mode, data, spd) ==
    <<Step("xfer", cs_pin, dc_pin, dc_mode, data, spd, 0)>>

_cmd(cs_pin, dc_pin, cmd, spd) == _write_bytes(cs_pin, dc_pin, FALSE, Lit(<<cmd>>), spd)

_dat(cs_pin, dc_pin, data, spd) == _write_bytes(cs_pin, dc_pin, TRUE, data, spd)

\* "if data:" is false for None and for an empty list
_cmd_dat(cs_pin, dc_pin, cmd, data, spd) ==
    _cmd(cs_pin, dc_pin, cmd, spd)
    \o (IF data.len > 0 THEN _dat(cs_pin, dc_pin, data, spd) ELSE <<>>)

\* ------------------------------------------------------------------------
\* ILI9341 and ST7735 (display_driver.py 88-204)
\* ------------------------------------------------------------------------
R(cmd, data, ms) == [cmd |-> cmd, data |-> data, ms |-> ms]

\* the calls c(cmd, data) of ILI9341.__init__, with the sleep that follows
ILI9341_regs ==
    <<  R(\h01, <<>>, 150),
        R(\h11, <<>>, 120),
        R(\hCF, <<\h00, \h83, \h30>>, 0),
        R(\hED, <<\h64, \h03, \h12, \h81>>, 0),
        R(\hE8, <<\h85, \h01, \h79>>, 0),
        R(\hCB, <<\h39, \h2C, \h00, \h34, \h02>>, 0),
        R(\hF7, <<\h20>>, 0),
        R(\hEA, <<\h00, \h00>>, 0),
        R(\hC0, <<\h26>>, 0),
        R(\hC1, <<\h11>>, 0),
        R(\hC5, <<\h35, \h3E>>, 0),
        R(\hC7, <<\hBE>>, 0),
        R(\h36, <<\hE8>>, 0),
        R(\h3A, <<\h55>>, 0),
        R(\hB1, <<\h00, \h1B>>, 0),
        R(\hF2, <<\h08>>, 0),
        R(\h26, <<\h01>>, 0),
        R(\hE0, <<\h1F, \h1A, \h18, \h0A, \h0F, \h06, \h45, \h87,
                  \h32, \h0A, \h07, \h02, \h07, \h05, \h00>>, 0),
        R(\hE1, <<\h00, \h25, \h27, \h05, \h10, \h09, \h3A, \h78,
                  \h4D, \h05, \h18, \h0D, \h38, \h3A, \h1F>>, 0),
        R(\h29, <<>>, 50) >>

\* the calls c(cmd, data) of ST7735.__init__, with the sleep that follows
ST7735_regs ==
    <<  R(\h01, <<>>, 150),
        R(\h11, <<>>, 500),
        R(\hB1, <<\h01, \h2C, \h2D>>, 0),
        R(\hB4, <<\h07>>, 0),
        R(\hC0, <<\hA2, \h02, \h84>>, 0),
        R(\hC1, <<\hC5>>, 0),
        R(\hC2, <<\h0A, \h00>>, 0),
        R(\hC5, <<\h8A, \h2A>>, 0),
        R(\h3A, <<\h05>>, 0),
        R(\h36, <<\h68>>, 0),
        R(\hE0, <<\h02, \h1C, \h07, \h12, \h37, \h32, \h29, \h2D,
                  \h29, \h25, \h2B, \h39, \h00, \h01, \h03, \h10>>, 0),
        R(\hE1, <<\h03, \h1D, \h07, \h06, \h2E, \h2C, \h29, \h2D,
                  \h2E, \h2E, \h37, \h3F, \h00, \h00, \h02, \h10>>, 0),
        R(\h13, <<>>, 10),
        R(\h29, <<>>, 100) >>

ILI9341_c(cmd, data) == _cmd_dat(ILI_CS, ILI_DC, cmd, Lit(data), ILI9341_SPD)

ST7735_c(cmd, data) == _cmd_dat(ST_CS, ST_DC, cmd, Lit(data), ST7735_SPD)

c(d, cmd, data) == IF d = "ILI" THEN ILI9341_c(cmd, data) ELSE ST7735_c(cmd, data)

\* c(cmd, data); time.sleep(s) for each line of the table, in order
RECURSIVE Replay(_, _, _)
Replay(d, regs, i) ==
    IF i > Len(regs) THEN <<>>
    ELSE c(d, regs[i].cmd, regs[i].data)
         \o (IF regs[i].ms > 0 THEN Sleep(regs[i].ms) ELSE <<>>)
         \o Replay(d, regs, i + 1)

\* a plausible slip: the reset line driven HIGH first and left LOW
Reset_HighFirst(d) ==
    GpioOut(RST(d), HIGH) \o Sleep(100) \o GpioOut(RST(d), LOW) \o Sleep(100)

\* GPIO.output(RST, LOW); sleep; GPIO.output(RST, HIGH); sleep
Reset(d) == GpioOut(RST(d), LOW) \o Sleep(100) \o GpioOut(RST(d), HIGH) \o Sleep(100)

ILI9341_init == Reset("ILI") \o Replay("ILI", ILI9341_regs, 1)

ST7735_init == Reset("ST") \o Replay("ST", ST7735_regs, 1)

\* a plausible slip: the window bounds sent as on the ST7735, high bytes 0
ILI9341_window_LowBytes(x0, y0, x1, y1) ==
    ILI9341_c(\h2A, <<0, BitAnd(x0, 255), 0, BitAnd(x1, 255)>>)
    \o ILI9341_c(\h2B, <<0, BitAnd(y0, 255), 0, BitAnd(y1, 255)>>)
    \o ILI9341_c(\h2C, <<>>)

ILI9341_window(x0, y0, x1, y1) ==
    ILI9341_c(\h2A, <<Shr(x0, 8), BitAnd(x0, 255), Shr(x1, 8), BitAnd(x1, 255)>>)
    \o ILI9341_c(\h2B, <<Shr(y0, 8), BitAnd(y0, 255), Shr(y1, 8), BitAnd(y1, 255)>>)
    \o ILI9341_c(\h2C, <<>>)

ST7735_window(x0, y0, x1, y1) ==
    ST7735_c(\h2A, <<0, x0, 0, x1>>)
    \o ST7735_c(\h2B, <<0, y0, 0, y1>>)
    \o ST7735_c(\h2C, <<>>)

\* a plausible slip: the orientation written again with every frame
ILI9341_image_Reoriented(px) ==
    ILI9341_c(\h36, <<\hE8>>)
    \o ILI9341_window(0, 0, W("ILI") - 1, H("ILI") - 1)
    \o _dat(ILI_CS, ILI_DC, Buf(PackLoop("ILI", px, 1), W("ILI") * H("ILI") * 2), ILI9341_SPD)

\* the tail of image(): self._window(0, 0, W-1, H-1); _dat(CS, DC, buf, SPD),
\* with buf = bytearray(W * H * 2) filled from the W*H pixels px
ILI9341_image(px) ==
    ILI9341_window(0, 0, W("ILI") - 1, H("ILI") - 1)
    \o _dat(ILI_CS, ILI_DC, Buf(PackLoop("ILI", px, 1), W("ILI") * H("ILI") * 2), ILI9341_SPD)

ST7735_image(px) ==
    ST7735_window(0, 0, W("ST") - 1, H("ST") - 1)
    \o _dat(ST_CS, ST_DC, Buf(PackLoop("ST", px, 1), W("ST") * H("ST") * 2), ST7735_SPD)

\* ------------------------------------------------------------------------
\* Touch (display_driver.py 240-282)
\* ------------------------------------------------------------------------
\* ch(cmd) of _raw_touch, one step of a call
Ch(cmd) == <<Step("ch", T_CS, 0, FALSE, Lit(<<cmd, 0, 0>>), TOUCH_SPD, cmd)>>

\* return ch(TOUCH_X_CMD), ch(TOUCH_Y_CMD)
_raw_touch == Ch(TOUCH_X_CMD) \o Ch(TOUCH_Y_CMD)

\* ((r[1] << 8) | r[2]) >> 3
Sample(r) == Shr(BitOr(Shl(r[1], 8), r[2]), 3)

\* vals.sort()
RECURSIVE Insert(_, _)
Insert(s, v) ==
    IF s = <<>> THEN <<v>>
    ELSE IF v <= Head(s) THEN <<v>> \o s
    ELSE <<Head(s)>> \o Insert(Tail(s), v)

RECURSIVE Sorted(_)
Sorted(s) == IF s = <<>> THEN <<>> ELSE Insert(Sorted(Tail(s)), Head(s))

\* a plausible slip: the slice taken before the sort
Filter_Unsorted(v) == SeqSum(SubSeq(v, 3, 6)) \div 4

\* vals.sort(); return sum(vals[2:6]) // 4
Filter(v) == SeqSum(SubSeq(Sorted(v), 3, 6)) \div 4

\* int(): a float is cut towards zero
Trunc(num, den) == IF num >= 0 THEN num \div den ELSE -((-num) \div den)

\* int((raw - lo) / max(1, hi - lo) * extent).  The quotient is a rounded
\* double: where the exact product is a whole number n and the quotient is not,
\* the double may lie just under n, and int() then gives the number one nearer
\* to zero.  Elsewhere the double lies in the same unit interval as the exact
\* value.
MapAxis(raw, lo, hi, extent) ==
    LET r == Max(1, hi - lo)
        num == (raw - lo) * extent
        q == Trunc(num, r)
    IN  IF num % r = 0 /\ (raw - lo) % r # 0 /\ q # 0
        THEN {q, IF q > 0 THEN q - 1 ELSE q + 1}
        ELSE {q}

\* if CAL_FLIP: v = extent - 1 - v
Flip(on, v, extent) == IF on THEN extent - 1 - v ELSE v

\* a plausible slip: the upper clamp at extent instead of extent - 1
Clamp_OffByOne(v, extent) == Max(0, Min(extent, v))

\* max(0, min(extent - 1, v))
Clamp(v, extent) == Max(0, Min(extent - 1, v))

\* the points read_touch can return for the channel values rx0, ry0
Calibrated(rx0, ry0) ==
    LET rx == IF cal.swap THEN ry0 ELSE rx0
        ry == IF cal.swap THEN rx0 ELSE ry0
    IN  { <<Clamp(Flip(cal.flip_x, x, SCREEN_W), SCREEN_W),
            Clamp(Flip(cal.flip_y, y, SCREEN_H), SCREEN_H)>> :
            x \in MapAxis(rx, cal.x_min, cal.x_max, SCREEN_W),
            y \in MapAxis(ry, cal.y_min, cal.y_max, SCREEN_H) }

\* the interrupt line says "no contact"
NoContact == IF cal.irq_high THEN irq = LOW ELSE irq = HIGH

\* ------------------------------------------------------------------------
\* A thread inside a driver call: one action per statement
\* ------------------------------------------------------------------------
others == <<cfgVars, mainVars, rgbVars>>

Entry(kind) ==
    CASE kind = "xfer" -> "wb_lock"
      [] kind = "ch" -> "ch_lock"
      [] kind = "gpio" -> "gpio"
      [] kind = "sleep" -> "sleep"

\* where a call goes when its steps are done: read_touch still has to map
\* the two channel values, every other call returns
AfterCall(fn) == IF fn = "read_touch" THEN "rt_map" ELSE "ret"

\* the call goes on with the first of the steps q, or is done with its steps
Advance(t, q) ==
    IF q # <<>>
    THEN /\ cur' = [cur EXCEPT ![t] = Head(q)]
         /\ queue' = [queue EXCEPT ![t] = Tail(q)]
         /\ pc' = [pc EXCEPT ![t] = Entry(Head(q).kind)]
    ELSE /\ cur' = cur
         /\ queue' = [queue EXCEPT ![t] = <<>>]
         /\ pc' = [pc EXCEPT ![t] = AfterCall(call[t].fn)]

\* the call has returned and its locals are gone
Forget(t) ==
    /\ pc' = [pc EXCEPT ![t] = "idle"]
    /\ call' = [call EXCEPT ![t] = NoCall]
    /\ queue' = [queue EXCEPT ![t] = <<>>]
    /\ cur' = [cur EXCEPT ![t] = NoStep]
    /\ idx' = [idx EXCEPT ![t] = 0]
    /\ vals' = [vals EXCEPT ![t] = <<>>]
    /\ rbuf' = [rbuf EXCEPT ![t] = <<0, 0>>]
    /\ chv' = [chv EXCEPT ![t] = <<>>]
    /\ res' = [res EXCEPT ![t] = NoPoint]
    /\ tr' = [tr EXCEPT ![t] = <<>>]

\* an exception leaves the call: its frames and locals are gone, the with
\* block it crosses releases the lock
Unwind(t) ==
    /\ lock' = "free"
    /\ wire' = NoWire
    /\ pc' = [pc EXCEPT ![t] = "exc"]
    /\ queue' = [queue EXCEPT ![t] = <<>>]
    /\ cur' = [cur EXCEPT ![t] = NoStep]
    /\ idx' = [idx EXCEPT ![t] = 0]
    /\ vals' = [vals EXCEPT ![t] = <<>>]
    /\ rbuf' = [rbuf EXCEPT ![t] = <<0, 0>>]
    /\ chv' = [chv EXCEPT ![t] = <<>>]
    /\ tr' = [tr EXCEPT ![t] = <<>>]

\* GPIO.output(pin, level) outside a transfer (the reset line)
GpioStep(t) ==
    /\ pc[t] = "gpio"
    /\ gpio' = [gpio EXCEPT ![cur[t].pin] = IF cur[t].dcm THEN HIGH ELSE LOW]
    /\ tr' = [tr EXCEPT ![t] = Append(tr[t],
                Ev("gpio", cur[t].pin, IF cur[t].dcm THEN HIGH ELSE LOW, <<>>, 0, 0, FALSE))]
    /\ Advance(t, queue[t])
    /\ UNCHANGED <<lock, speed, spi, wire, ready, call, idx, vals, rbuf, chv, res,
                   envVars, others>>

\* time.sleep(s)
SleepStep(t) ==
    /\ pc[t] = "sleep"
    /\ tr' = [tr EXCEPT ![t] = Append(tr[t], Ev("sleep", 0, HIGH, <<>>, cur[t].arg, 0, FALSE))]
    /\ Advance(t, queue[t])
    /\ UNCHANGED <<busVars, call, idx, vals, rbuf, chv, res, envVars, others>>

\* _write_bytes: "with _lock:" entered
WB_Lock(t) ==
    /\ pc[t] = "wb_lock"
    /\ lock = "free"
    /\ lock' = t
    /\ pc' = [pc EXCEPT ![t] = "wb_speed"]
    /\ UNCHANGED <<speed, gpio, spi, wire, ready, call, queue, cur, idx, vals, rbuf, chv, res, tr,
                   envVars, others>>

\* a plausible slip: the speed left as the last transfer set it
WB_Speed_Kept(t) ==
    /\ pc[t] = "wb_speed"
    /\ pc' = [pc EXCEPT ![t] = "wb_dc"]
    /\ UNCHANGED <<lock, speed, gpio, spi, wire, ready, call, queue, cur, idx, vals, rbuf, chv,
                   res, tr, envVars, others>>

\* _spi.max_speed_hz = speed
WB_Speed(t) ==
    /\ pc[t] = "wb_speed"
    /\ speed' = cur[t].speed
    /\ pc' = [pc EXCEPT ![t] = "wb_dc"]
    /\ UNCHANGED <<lock, gpio, spi, wire, ready, call, queue, cur, idx, vals, rbuf, chv, res, tr,
                   envVars, others>>

\* GPIO.output(dc_pin, GPIO.HIGH if dc_mode else GPIO.LOW)
WB_DC(t) ==
    /\ pc[t] = "wb_dc"
    /\ gpio' = [gpio EXCEPT ![cur[t].dcp] = IF cur[t].dcm THEN HIGH ELSE LOW]
    /\ pc' = [pc EXCEPT ![t] = "wb_cs"]
    /\ UNCHANGED <<lock, speed, spi, wire, ready, call, queue, cur, idx, vals, rbuf, chv, res, tr,
                   envVars, others>>

\* GPIO.output(cs_pin, GPIO.LOW)
WB_CsLow(t) ==
    /\ pc[t] = "wb_cs"
    /\ gpio' = [gpio EXCEPT ![cur[t].pin] = LOW]
    /\ idx' = [idx EXCEPT ![t] = 0]
    /\ tr' = [tr EXCEPT ![t] = Append(tr[t],
                Ev("xfer", cur[t].pin, gpio[cur[t].dcp], <<>>, 0, speed, TRUE))]
    /\ pc' = [pc EXCEPT ![t] = "wb_loop"]
    /\ UNCHANGED <<lock, speed, spi, wire, ready, call, queue, cur, vals, rbuf, chv, res,
                   envVars, others>>

\* what a display that is selected with its data/command line LOW takes as
\* the command "display on"
SeesDisplayOn(d, bytes) == gpio[CS(d)] = LOW /\ gpio[DC(d)] = LOW /\ bytes = <<\h29>>

\* for i in range(0, len(data), 4096): _spi.writebytes2(data[i:i+4096])
WB_Chunk(t) ==
    /\ pc[t] = "wb_loop"
    /\ idx[t] < cur[t].len
    /\ spi = "open"
    /\ LET n == Min(CHUNK, cur[t].len - idx[t])
           bytes == Slice(cur[t], idx[t], n)
           last == tr[t][Len(tr[t])]
       IN  /\ wire' = [by |-> t, holder |-> lock, sel |-> Selected, speed |-> speed,
                       dcl |-> gpio[cur[t].dcp], bytes |-> bytes, n |-> n, off |-> idx[t]]
           /\ tr' = [tr EXCEPT ![t][Len(tr[t])] =
                        [last EXCEPT !.bytes = last.bytes \o bytes, !.n = last.n + n]]
           /\ ready' = [d \in Displays |-> ready[d] \/ SeesDisplayOn(d, bytes)]
           /\ idx' = [idx EXCEPT ![t] = idx[t] + CHUNK]
    /\ UNCHANGED <<lock, speed, gpio, spi, pc, call, queue, cur, vals, rbuf, chv, res,
                   envVars, others>>

\* writebytes2 raises (a transport fault): the exception leaves the with
\* block, which releases the lock; no statement after the loop runs
WB_Raise(t) ==
    /\ pc[t] = "wb_loop"
    /\ idx[t] < cur[t].len
    /\ Unwind(t)
    /\ UNCHANGED <<speed, gpio, spi, ready, call, res, envVars, others>>

\* GPIO.output(cs_pin, GPIO.HIGH)
WB_CsHigh(t) ==
    /\ pc[t] = "wb_loop"
    /\ idx[t] >= cur[t].len
    /\ gpio' = [gpio EXCEPT ![cur[t].pin] = HIGH]
    /\ tr' = [tr EXCEPT ![t][Len(tr[t])].open = FALSE]
    /\ pc' = [pc EXCEPT ![t] = "wb_unlock"]
    /\ UNCHANGED <<lock, speed, spi, wire, ready, call, queue, cur, idx, vals, rbuf, chv, res,
                   envVars, others>>

\* the with block is left
WB_Unlock(t) ==
    /\ pc[t] = "wb_unlock"
    /\ lock' = "free"
    /\ wire' = NoWire
    /\ Advance(t, queue[t])
    /\ UNCHANGED <<speed, gpio, spi, ready, call, idx, vals, rbuf, chv, res, tr,
                   envVars, others>>

\* ch(cmd): vals = []; "with _lock:" entered
CH_Lock(t) ==
    /\ pc[t] = "ch_lock"
    /\ lock = "free"
    /\ lock' = t
    /\ vals' = [vals EXCEPT ![t] = <<>>]
    /\ pc' = [pc EXCEPT ![t] = "ch_speed"]
    /\ UNCHANGED <<speed, gpio, spi, wire, ready, call, queue, cur, idx, rbuf, chv, res, tr,
                   envVars, others>>

\* _spi.max_speed_hz = 1_000_000
CH_Speed(t) ==
    /\ pc[t] = "ch_speed"
    /\ speed' = TOUCH_SPD
    /\ idx' = [idx EXCEPT ![t] = 0]
    /\ pc' = [pc EXCEPT ![t] = "ch_loop"]
    /\ UNCHANGED <<lock, gpio, spi, wire, ready, call, queue, cur, vals, rbuf, chv, res, tr,
                   envVars, others>>

\* for _ in range(8): GPIO.output(T_CS, GPIO.LOW)
CH_CsLow(t) ==
    /\ pc[t] = "ch_loop"
    /\ idx[t] < NSAMPLES
    /\ gpio' = [gpio EXCEPT ![T_CS] = LOW]
    /\ tr' = [tr EXCEPT ![t] = Append(tr[t], Ev("acq", T_CS, HIGH, <<>>, 0, speed, TRUE))]
    /\ pc' = [pc EXCEPT ![t] = "ch_xfer"]
    /\ UNCHANGED <<lock, speed, spi, wire, ready, call, queue, cur, idx, vals, rbuf, chv, res,
                   envVars, others>>

\* r = _spi.xfer2([cmd, 0x00, 0x00])
CH_Xfer(t) ==
    /\ pc[t] = "ch_xfer"
    /\ spi = "open"
    /\ \E r \in adc[cur[t].arg] :
          rbuf' = [rbuf EXCEPT ![t] = r]
    /\ LET last == tr[t][Len(tr[t])]
       IN  /\ wire' = [by |-> t, holder |-> lock, sel |-> Selected, speed |-> speed,
                       dcl |-> HIGH, bytes |-> cur[t].bytes, n |-> 3, off |-> 0]
           /\ tr' = [tr EXCEPT ![t][Len(tr[t])] =
                        [last EXCEPT !.bytes = cur[t].bytes, !.n = 3]]
           /\ ready' = [d \in Displays |-> ready[d] \/ SeesDisplayOn(d, cur[t].bytes)]
    /\ pc' = [pc EXCEPT ![t] = "ch_high"]
    /\ UNCHANGED <<lock, speed, gpio, spi, call, queue, cur, idx, vals, chv, res,
                   envVars, others>>

\* xfer2 raises: the with block releases the lock, T_CS is left as it is
CH_Raise(t) ==
    /\ pc[t] = "ch_xfer"
    /\ Unwind(t)
    /\ UNCHANGED <<speed, gpio, spi, ready, call, res, envVars, others>>

\* GPIO.output(T_CS, GPIO.HIGH); vals.append(((r[1] << 8) | r[2]) >> 3)
CH_CsHigh(t) ==
    /\ pc[t] = "ch_high"
    /\ gpio' = [gpio EXCEPT ![T_CS] = HIGH]
    /\ vals' = [vals EXCEPT ![t] = Append(vals[t], Sample(rbuf[t]))]
    /\ idx' = [idx EXCEPT ![t] = idx[t] + 1]
    /\ tr' = [tr EXCEPT ![t][Len(tr[t])].open = FALSE]
    /\ pc' = [pc EXCEPT ![t] = "ch_loop"]
    /\ UNCHANGED <<lock, speed, spi, wire, ready, call, queue, cur, rbuf, chv, res,
                   envVars, others>>

\* the loop is over and the with block is left
CH_Unlock(t) ==
    /\ pc[t] = "ch_loop"
    /\ idx[t] >= NSAMPLES
    /\ lock' = "free"
    /\ wire' = NoWire
    /\ pc' = [pc EXCEPT ![t] = "ch_sort"]
    /\ UNCHANGED <<speed, gpio, spi, ready, call, queue, cur, idx, vals, rbuf, chv, res, tr,
                   envVars, others>>

\* vals.sort(); return sum(vals[2:6]) // 4
CH_Return(t) ==
    /\ pc[t] = "ch_sort"
    /\ chv' = [chv EXCEPT ![t] = Append(chv[t], Filter(vals[t]))]
    /\ Advance(t, queue[t])
    /\ UNCHANGED <<busVars, call, idx, vals, rbuf, res, tr, envVars, others>>

\* ------------------------------------------------------------------------
\* The driver's entry points
\* ------------------------------------------------------------------------
Red == <<255, 0, 0>>
Green == <<0, 255, 0>>
Blue == <<0, 0, 255>>
White == <<255, 255, 255>>
Palette == {Red, Green, Blue, White}

Frame(w, h, px) == [w |-> w, h |-> h, px |-> px]
NoFrame == Frame(0, 0, <<>>)

\* img.resize((W, H)) when img.size != (W, H): some image of W x H pixels.
\* A frame whose pixels the model does not follow (px = << >>) stays so.
Resized(d, f) ==
    IF f.px = <<>> THEN {<<>>}
    ELSE IF <<f.w, f.h>> = <<W(d), H(d)>> THEN {f.px}
    ELSE [1..(W(d) * H(d)) -> Palette]

\* a caller enters fn, which starts at the statement "first"
Begin(t, fn, d, f, first) ==
    /\ call' = [call EXCEPT ![t] = [fn |-> fn, disp |-> d, w |-> f.w, h |-> f.h,
                                    px |-> f.px, img |-> <<>>]]
    /\ tr' = [tr EXCEPT ![t] = <<>>]
    /\ chv' = [chv EXCEPT ![t] = <<>>]
    /\ res' = [res EXCEPT ![t] = NoPoint]
    /\ queue' = [queue EXCEPT ![t] = <<>>]
    /\ cur' = [cur EXCEPT ![t] = NoStep]
    /\ idx' = [idx EXCEPT ![t] = 0]
    /\ vals' = [vals EXCEPT ![t] = <<>>]
    /\ rbuf' = [rbuf EXCEPT ![t] = <<0, 0>>]
    /\ pc' = [pc EXCEPT ![t] = first]

\* ILI9341() and ST7735(): __init__ runs the reset and the register table
Init_Enter(t) ==
    /\ pc[t] = "init"
    /\ Advance(t, IF call[t].disp = "ILI" THEN ILI9341_init ELSE ST7735_init)
    /\ UNCHANGED <<busVars, call, idx, vals, rbuf, chv, res, tr, envVars, others>>

\* image(img): resize, encode into buf, set the window, send buf
IMG_Encode(t) ==
    /\ pc[t] = "img_enc"
    /\ \E img \in Resized(call[t].disp, call[t]) :
          /\ call' = [call EXCEPT ![t].img = img]
          /\ Advance(t, IF call[t].disp = "ILI" THEN ILI9341_image(img) ELSE ST7735_image(img))
    /\ UNCHANGED <<busVars, idx, vals, rbuf, chv, res, tr, envVars, others>>

\* a plausible slip: the interrupt line is not looked at
RT_Irq_Always(t) ==
    /\ pc[t] = "rt_irq"
    /\ Advance(t, _raw_touch)
    /\ UNCHANGED <<busVars, call, idx, vals, rbuf, chv, res, tr, envVars, others>>

\* read_touch: irq = GPIO.input(T_IRQ); return None when it says no contact,
\* else rx, ry = _raw_touch()
RT_Irq(t) ==
    /\ pc[t] = "rt_irq"
    /\ IF NoContact
       THEN /\ pc' = [pc EXCEPT ![t] = "ret"]
            /\ UNCHANGED <<queue, cur>>
       ELSE Advance(t, _raw_touch)
    /\ UNCHANGED <<busVars, call, idx, vals, rbuf, chv, res, tr, envVars, others>>

\* read_touch: swap, map, flip, clamp, return (x, y)
RT_Map(t) ==
    /\ pc[t] = "rt_map"
    /\ \E p \in Calibrated(chv[t][1], chv[t][2]) :
          res' = [res EXCEPT ![t] = p]
    /\ pc' = [pc EXCEPT ![t] = "ret"]
    /\ UNCHANGED <<busVars, call, queue, cur, idx, vals, rbuf, chv, tr, envVars, others>>

WriteSteps(t) ==
    \/ WB_Lock(t) \/ WB_Speed(t) \/ WB_DC(t) \/ WB_CsLow(t)
    \/ WB_Chunk(t) \/ WB_Raise(t) \/ WB_CsHigh(t) \/ WB_Unlock(t)

AcquireSteps(t) ==
    \/ CH_Lock(t) \/ CH_Speed(t) \/ CH_CsLow(t) \/ CH_Xfer(t)
    \/ CH_Raise(t) \/ CH_CsHigh(t) \/ CH_Unlock(t) \/ CH_Return(t)

\* ------------------------------------------------------------------------
\* Environment: the pen and the touch controller
\* ------------------------------------------------------------------------
\* the (r[1], r[2]) a channel answers with, for a raw 12-bit value v
Answer(v) == <<Shr(v * 8, 8), BitAnd(v * 8, 255)>>

\* the ADC answers while the pen rests at the raw position p
PenAt(p) == [k \in {TOUCH_X_CMD, TOUCH_Y_CMD} |->
                IF k = TOUCH_X_CMD THEN {Answer(p[1])} ELSE {Answer(p[2])}]

\* raw positions: the middle of the panel, and positions read_touch maps to
\* (50, 120), (50, 228), (240, 180) and (240, 80)
PenRest == <<2048, 2048>>
PenRaws == { <<926, 2116>>, <<926, 3470>>, <<2735, 2868>>, <<2735, 1615>> }

\* the pen goes down somewhere or up while a caller is about to look at the
\* line
PenMoves ==
    /\ \E t \in Threads : pc[t] = "rt_irq"
    /\ \/ irq' = HIGH /\ adc' = PenAt(PenRest)
       \/ \E p \in PenRaws : irq' = LOW /\ adc' = PenAt(p)
    /\ <<irq', adc'>> # <<irq, adc>>
    /\ held' = 0
    /\ UNCHANGED <<busVars, thVars, cfgVars, mpc, pt, uiVars, clkVars, cycVars, hitVars,
                   rgbVars>>

\* ------------------------------------------------------------------------
\* Screens, hit regions and the touch router (ui.py, ui-both-displays.py)
\* ------------------------------------------------------------------------
SCREEN_DASHBOARD == "dashboard"
SCREEN_APPS == "apps"
SCREEN_BRIEF == "brief"
SCREEN_EMAILS == "emails"
SCREEN_SYSMON == "sysmon"
SCREEN_FOCUS == "focus"
Screens == {SCREEN_DASHBOARD, SCREEN_APPS, SCREEN_BRIEF, SCREEN_EMAILS,
            SCREEN_SYSMON, SCREEN_FOCUS}

\* ILI_W, ILI_H = 320, 240 of ui.py
ILI_W == 320
ILI_H == 240
BAR_H == 24
BOT_H == 18
\* PAD of render_apps
PAD == 6

\* a region (x0, y0, x1, y1, payload)
Region(x0, y0, x1, y1, payload) == <<x0, y0, x1, y1, payload>>

\* a plausible slip: the right and bottom bounds taken as exclusive
RECURSIVE hit_test_Exclusive(_, _, _)
hit_test_Exclusive(tx, ty, rs) ==
    IF rs = <<>> THEN "None"
    ELSE LET r == Head(rs)
         IN  IF r[1] <= tx /\ tx < r[3] /\ r[2] <= ty /\ ty < r[4]
             THEN r[5]
             ELSE hit_test_Exclusive(tx, ty, Tail(rs))

\* for x0, y0, x1, y1, payload in regions: if x0 <= tx <= x1 and
\* y0 <= ty <= y1: return payload; return None
RECURSIVE hit_test(_, _, _)
hit_test(tx, ty, rs) ==
    IF rs = <<>> THEN "None"
    ELSE LET r == Head(rs)
         IN  IF r[1] <= tx /\ tx <= r[3] /\ r[2] <= ty /\ ty <= r[4]
             THEN r[5]
             ELSE hit_test(tx, ty, Tail(rs))

DASHBOARD_PIE_REGION == << Region(14, 82, 96, 162, SCREEN_APPS) >>
BACK_REGION == << Region(0, ILI_H - BOT_H, 100, ILI_H, SCREEN_DASHBOARD) >>

\* the "id" of APPS_TILES, in list order
APPS_TILES == << SCREEN_EMAILS, SCREEN_FOCUS, SCREEN_BRIEF, SCREEN_SYSMON >>

\* hit_rects of render_apps: tile i at column i % 2, row i // 2
TileRects ==
    LET tile_w == (ILI_W - PAD * 3) \div 2
        tile_h == (ILI_H - BAR_H - PAD * 3) \div 2
    IN  [ k \in 1..Len(APPS_TILES) |->
            LET i == k - 1
                tx == PAD + (i % 2) * (tile_w + PAD)
                ty == BAR_H + PAD + (i \div 2) * (tile_h + PAD)
            IN  Region(tx, ty, tx + tile_w, ty + tile_h, APPS_TILES[k]) ]

\* the router's fields after a call of handle_touch, and what it returned
Routed(scr, clean, active, elapsed, msg, ret) ==
    [screen |-> scr, clean_done |-> clean, focus_active |-> active,
     focus_elapsed_mins |-> elapsed, focus_message |-> msg, ret |-> ret]

\* handle_touch leaves the state as it is and returns False
Unrouted == Routed(screen, clean_done, focus_active, focus_elapsed_mins, focus_message, "False")

\* handle_touch returns True with the screen set to target
Goes(target) ==
    Routed(target, clean_done, focus_active, focus_elapsed_mins, focus_message, "True")

\* a plausible slip: the match found but the screen not set
route_dashboard_Ignored(x, y) == Unrouted

\* if s == SCREEN_DASHBOARD: target = hit_test(x, y, DASHBOARD_PIE_REGION)
route_dashboard(x, y) ==
    LET target == hit_test(x, y, DASHBOARD_PIE_REGION)
    IN  IF target # "None" THEN Goes(target) ELSE Unrouted

\* a plausible slip: the back region tested before the tiles
route_apps_BackFirst(x, y) ==
    LET target == hit_test(x, y, apps_rects)
        back == hit_test(x, y, BACK_REGION)
    IN  IF back # "None" THEN Goes(back)
        ELSE IF target # "None" THEN Goes(target)
        ELSE Unrouted

\* a plausible slip: the tap that opens SystemCare taken for the cleaning tap
route_apps_Cleaned(x, y) ==
    LET target == hit_test(x, y, apps_rects)
        back == hit_test(x, y, BACK_REGION)
    IN  IF target # "None"
        THEN Routed(target, target = SCREEN_SYSMON, focus_active, focus_elapsed_mins,
                    focus_message, "True")
        ELSE IF back # "None" THEN Goes(back)
        ELSE Unrouted

\* elif s == SCREEN_APPS: the tiles first, then the back region
route_apps(x, y) ==
    LET target == hit_test(x, y, apps_rects)
        back == hit_test(x, y, BACK_REGION)
    IN  IF target # "None" THEN Goes(target)
        ELSE IF back # "None" THEN Goes(back)
        ELSE Unrouted

\* a plausible slip: the cleaning tap taken whether or not it has been done
route_sub_CleanAgain(x, y) ==
    LET back == hit_test(x, y, BACK_REGION)
        ends == screen = SCREEN_FOCUS /\ focus_active
    IN  IF back # "None"
        THEN Routed(back,
                    IF screen = SCREEN_SYSMON THEN FALSE ELSE clean_done,
                    IF ends THEN FALSE ELSE focus_active,
                    IF ends THEN 0 ELSE focus_elapsed_mins,
                    IF ends THEN "Session ended." ELSE focus_message,
                    "True")
        ELSE IF screen = SCREEN_SYSMON
        THEN Routed(screen, TRUE, focus_active, focus_elapsed_mins, focus_message, "True")
        ELSE Unrouted

\* a plausible slip: the back tap goes one level up, to Apps
route_sub_ToApps(x, y) ==
    LET back == hit_test(x, y, BACK_REGION)
        ends == screen = SCREEN_FOCUS /\ focus_active
    IN  IF back # "None"
        THEN Routed(SCREEN_APPS,
                    IF screen = SCREEN_SYSMON THEN FALSE ELSE clean_done,
                    IF ends THEN FALSE ELSE focus_active,
                    IF ends THEN 0 ELSE focus_elapsed_mins,
                    IF ends THEN "Session ended." ELSE focus_message,
                    "True")
        ELSE IF screen = SCREEN_SYSMON /\ ~clean_done
        THEN Routed(screen, TRUE, focus_active, focus_elapsed_mins, focus_message, "True")
        ELSE Unrouted

\* a plausible slip: the session left running when Focus is left
route_sub_SessionKept(x, y) ==
    LET back == hit_test(x, y, BACK_REGION)
    IN  IF back # "None"
        THEN Routed(back, IF screen = SCREEN_SYSMON THEN FALSE ELSE clean_done,
                    focus_active, focus_elapsed_mins, focus_message, "True")
        ELSE IF screen = SCREEN_SYSMON /\ ~clean_done
        THEN Routed(screen, TRUE, focus_active, focus_elapsed_mins, focus_message, "True")
        ELSE Unrouted

\* a plausible slip: the clean flag kept when SystemCare is left
route_sub_CleanKept(x, y) ==
    LET back == hit_test(x, y, BACK_REGION)
        ends == screen = SCREEN_FOCUS /\ focus_active
    IN  IF back # "None"
        THEN Routed(back, clean_done,
                    IF ends THEN FALSE ELSE focus_active,
                    IF ends THEN 0 ELSE focus_elapsed_mins,
                    IF ends THEN "Session ended." ELSE focus_message,
                    "True")
        ELSE IF screen = SCREEN_SYSMON /\ ~clean_done
        THEN Routed(screen, TRUE, focus_active, focus_elapsed_mins, focus_message, "True")
        ELSE Unrouted

\* else: any sub-screen: the back tap, which ends a running focus session and
\* resets the clean flag of SystemCare; on SystemCare a tap elsewhere cleans
route_sub(x, y) ==
    LET back == hit_test(x, y, BACK_REGION)
        ends == screen = SCREEN_FOCUS /\ focus_active
    IN  IF back # "None"
        THEN Routed(back,
                    IF screen = SCREEN_SYSMON THEN FALSE ELSE clean_done,
                    IF ends THEN FALSE ELSE focus_active,
                    IF ends THEN 0 ELSE focus_elapsed_mins,
                    IF ends THEN "Session ended." ELSE focus_message,
                    "True")
        ELSE IF screen = SCREEN_SYSMON /\ ~clean_done
        THEN Routed(screen, TRUE, focus_active, focus_elapsed_mins, focus_message, "True")
        ELSE Unrouted

\* handle_touch(x, y): the state it leaves and the value it returns
handle_touch(x, y) ==
    IF screen = SCREEN_DASHBOARD THEN route_dashboard(x, y)
    ELSE IF screen = SCREEN_APPS THEN route_apps(x, y)
    ELSE route_sub(x, y)

\* changed = handle_touch(x, y), on the global state
Route(x, y) ==
    LET n == handle_touch(x, y)
    IN  /\ screen' = n.screen
        /\ clean_done' = n.clean_done
        /\ focus_active' = n.focus_active
        /\ focus_elapsed_mins' = n.focus_elapsed_mins
        /\ focus_message' = n.focus_message
        /\ changed' = n.ret
        /\ UNCHANGED apps_rects

\* ------------------------------------------------------------------------
\* ui-both-displays.py: the focus timer, the debounce rule, the frame builder
\* ------------------------------------------------------------------------
\* a plausible slip: the session ended only past its last minute
tick_focus_Late ==
    IF focus_active /\ clock - focus_last_tick >= 60000
    THEN /\ focus_last_tick' = clock
         /\ focus_elapsed_mins' = focus_elapsed_mins + 1
         /\ IF focus_elapsed_mins + 1 > focus_session_mins
            THEN focus_active' = FALSE /\ focus_message' = "Session complete!"
            ELSE UNCHANGED <<focus_active, focus_message>>
    ELSE UNCHANGED <<focus_last_tick, focus_elapsed_mins, focus_active, focus_message>>

\* tick_focus(): one minute more on a running session when 60 s have passed
\* since _focus_last_tick; the session ends when its minutes are used up
tick_focus ==
    IF focus_active /\ clock - focus_last_tick >= 60000
    THEN /\ focus_last_tick' = clock
         /\ focus_elapsed_mins' = focus_elapsed_mins + 1
         /\ IF focus_elapsed_mins + 1 >= focus_session_mins
            THEN focus_active' = FALSE /\ focus_message' = "Session complete!"
            ELSE UNCHANGED <<focus_active, focus_message>>
    ELSE UNCHANGED <<focus_last_tick, focus_elapsed_mins, focus_active, focus_message>>

\* a plausible slip: a shorter interval
Accepts_Short(p, now_ms) == p # NoPoint /\ now_ms - last_touch_ms > 200

\* if pt: ... if now_ms - last_touch_ms > DEBOUNCE_MS
Accepts(p, now_ms) == p # NoPoint /\ now_ms - last_touch_ms > DEBOUNCE_MS

\* a plausible slip: the timestamp renewed by every touch
Stamped_EveryTouch(p, now_ms) == IF p # NoPoint THEN now_ms ELSE last_touch_ms

\* last_touch_ms = now_ms, under the condition above
Stamped(p, now_ms) == IF Accepts(p, now_ms) THEN now_ms ELSE last_touch_ms

\* a plausible slip: the frame of the screen shown before
build_ili_frame_Stale == IF shown # "none" THEN shown ELSE screen

\* build_ili_frame(): s = state.screen, and the frame of render_<s>
build_ili_frame == screen

\* the screens whose renderer raises with the AppState main() starts from
Raising == {SCREEN_SYSMON}

\* frame_interval = 1.0 / ILI_REFRESH_HZ, in ms
frame_interval == 1000 \div ILI_REFRESH_HZ

\* a plausible slip: the whole interval slept, whatever the cycle took
sleep_t_Whole(elapsed) == frame_interval

\* sleep_t = max(0.0, frame_interval - elapsed)
sleep_t(elapsed) == Max(0, frame_interval - elapsed)

\* a plausible slip: the ST7735 due after 4 s
Due_Early(n, last) == n - last >= 4000

\* if now - last_st_update >= ST_REFRESH_S, in ms
Due(n, last) == n - last >= ST_REFRESH_S * 1000

\* what a push of the ILI9341 can take, in ms: a quick one, two slow ones, and
\* two stalls that bring the second cycle to 1 ms before and to the moment
\* the ST7735 is due again
PushTimes == {30, 250, 350, 4929, 4930}

\* ------------------------------------------------------------------------
\* Initial values
\* ------------------------------------------------------------------------
\* module load of display_driver.py: the bus opened at 40 MHz, every output
\* line HIGH, the lock free
BusInit ==
    /\ lock = "free"
    /\ speed = SPI_INIT_SPD
    /\ gpio = [p \in OutPins |-> HIGH]
    /\ spi = "open"
    /\ wire = NoWire

ThreadsInit ==
    /\ pc = [t \in Threads |-> "idle"]
    /\ call = [t \in Threads |-> NoCall]
    /\ queue = [t \in Threads |-> <<>>]
    /\ cur = [t \in Threads |-> NoStep]
    /\ idx = [t \in Threads |-> 0]
    /\ vals = [t \in Threads |-> <<>>]
    /\ rbuf = [t \in Threads |-> <<0, 0>>]
    /\ chv = [t \in Threads |-> <<>>]
    /\ res = [t \in Threads |-> NoPoint]
    /\ tr = [t \in Threads |-> <<>>]

\* W, H of the two classes
RealPanels == [ILI |-> <<ILI9341_W, ILI9341_H>>, ST |-> <<ST7735_W, ST7735_H>>]

\* the calibration constants and flags of display_driver.py
DriverCal ==
    [x_min |-> CAL_X_MIN, x_max |-> CAL_X_MAX, y_min |-> CAL_Y_MIN, y_max |-> CAL_Y_MAX,
     swap |-> CAL_SWAP_XY, flip_x |-> CAL_FLIP_X, flip_y |-> CAL_FLIP_Y,
     irq_high |-> TOUCH_IRQ_ACTIVE_HIGH]

\* the driver loaded, nobody calling it, the pen up
DriverIdle ==
    /\ BusInit /\ ThreadsInit
    /\ ready = [d \in Displays |-> FALSE]
    /\ panel = RealPanels
    /\ cal = DriverCal
    /\ content = NoFrame
    /\ irq = HIGH
    /\ adc = [k \in {TOUCH_X_CMD, TOUCH_Y_CMD} |-> {<<0, 0>>}]

RgbIdle == pixel = <<0, 0, 0>> /\ enc = "ILI" /\ c565 = -1
\* state = AppState()
RouterInit ==
    /\ screen = SCREEN_DASHBOARD
    /\ apps_rects = <<>>
    /\ clean_done = FALSE
    /\ focus_active = FALSE
    /\ focus_elapsed_mins = 0
    /\ focus_message = ""
    /\ changed = "none"

\* the process starts at Epoch; _focus_last_tick = 0.0; last_touch_ms = 0.0
ClockInit ==
    /\ clock = Epoch
    /\ last_touch_ms = 0
    /\ focus_last_tick = 0
    /\ loop_start = 0
    /\ last_st_update = 0
    /\ now = 0

CycleInit == cyc = <<>> /\ built = "none" /\ shown = "none" /\ held = 0

HitIdle == regions = <<>> /\ hit = "unset"

\* main() is not running
MainIdle ==
    /\ mpc = "off" /\ pt = NoPoint
    /\ RouterInit /\ ClockInit /\ CycleInit /\ HitIdle

\* ------------------------------------------------------------------------
\* SpecBus: threads call the transfer helpers on the shared bus
\* ------------------------------------------------------------------------
\* a call that consists of bus steps only
StartSteps(t, fn, d, q) ==
    /\ pc[t] = "idle"
    /\ call' = [call EXCEPT ![t] = [NoCall EXCEPT !.fn = fn, !.disp = d]]
    /\ tr' = [tr EXCEPT ![t] = <<>>]
    /\ chv' = [chv EXCEPT ![t] = <<>>]
    /\ res' = [res EXCEPT ![t] = NoPoint]
    /\ Advance(t, q)
    /\ UNCHANGED <<busVars, idx, vals, rbuf, envVars, others>>

\* the (command, payload) pairs and the data lengths the threads send: a
\* window command with its 4 bytes, a command without payload; one full
\* chunk, two chunks and a byte
BusCmds == { <<\h2A, <<0, 0, 1, 63>> >>, <<\h2C, <<>> >> }
BusLens == {CHUNK, 2 * CHUNK + 1}

W_CmdDat(t) == \E d \in Displays : \E cd \in BusCmds :
    StartSteps(t, "_cmd_dat", d, c(d, cd[1], cd[2]))

W_Dat(t) == \E d \in Displays : \E n \in BusLens :
    StartSteps(t, "_dat", d, _dat(CS(d), DC(d), Buf(<<>>, n), SPD(d)))

W_RawTouch(t) == StartSteps(t, "_raw_touch", "none", _raw_touch)

W_Return(t) ==
    /\ pc[t] = "ret"
    /\ Forget(t)
    /\ UNCHANGED <<busVars, envVars, others>>

InitBus ==
    /\ BusInit /\ ThreadsInit /\ RgbIdle /\ MainIdle
    /\ ready = [d \in Displays |-> TRUE]
    /\ panel = RealPanels
    /\ cal = DriverCal
    /\ content = NoFrame
    /\ irq = HIGH
    /\ adc = [k \in {TOUCH_X_CMD, TOUCH_Y_CMD} |-> {Answer(2048)}]

NextBus ==
    \E t \in Workers :
        \/ W_CmdDat(t) \/ W_Dat(t) \/ W_RawTouch(t) \/ W_Return(t)
        \/ WriteSteps(t) \/ AcquireSteps(t)

SpecBus == InitBus /\ [][NextBus]_vars

\* C1: at most one chip-select line is LOW at any time, and every byte moved
\* on the bus while a chip-select is LOW belongs to the transfer of the thread
\* that holds _lock.
C1_OneTargetSelected ==
    /\ Cardinality(Selected) <= 1
    /\ (wire.by # "none" =>
            /\ wire.holder = wire.by
            /\ lock = wire.by
            /\ Cardinality(wire.sel) <= 1)

\* C29: whenever _lock is free all three chip-select lines are HIGH: a call
\* of _write_bytes or _raw_touch that has ended, by returning or by a transport
\* exception of the bus write, has deasserted the chip-select it asserted.
C29_IdleBusDeselected ==
    /\ lock = "free" => \A p \in CsPins : gpio[p] = HIGH
    /\ \A t \in Threads : pc[t] \in {"ret", "exc"} => lock # t

\* the payload of the running _cmd_dat call is still to be sent, in part or
\* in whole
PayloadPending(t) ==
    \/ queue[t] # <<>>
    \/ /\ cur[t].dcm
       /\ pc[t] \notin {"idle", "ret", "exc"}
       /\ ~(Len(tr[t]) = 2 /\ tr[t][2].n = cur[t].len)

\* C2: a command and its payload are sent inside one chip-select bracket:
\* from the command byte until the last payload byte the chip-select stays LOW
\* and the sender keeps the bus, so that no transfer of another caller falls
\* between the command byte and its payload.
C2_CommandPayloadOneBracket ==
    \A t \in Threads :
        (/\ call[t].fn = "_cmd_dat"
         /\ tr[t] # <<>>
         /\ tr[t][1].n = 1
         /\ PayloadPending(t))
        => (gpio[cur[t].pin] = LOW /\ lock = t)

\* the speed the claim gives the target behind a chip-select line
ClaimedSpeed(pin) ==
    IF pin = ILI_CS THEN 40000000 ELSE IF pin = ST_CS THEN 15000000 ELSE 1000000

\* the thread is inside a chip-select bracket of its own
InBracket(t) == tr[t] # <<>> /\ tr[t][Len(tr[t])].open

\* C25: when a transfer's chip-select goes LOW the bus speed is already that
\* of its target (40 MHz ILI9341, 15 MHz ST7735, 1 MHz touch), every byte of
\* the transfer moves at that speed, and the speed is not changed while the
\* chip-select of a running transfer is LOW, whatever transfer came before.
C25_SpeedPerTransfer ==
    [][ /\ \A t \in Threads :
              /\ (InBracket(t)' /\ ~InBracket(t)) =>
                    speed = ClaimedSpeed(tr'[t][Len(tr'[t])].pin)
              /\ (wire'.by = t /\ wire' # wire) =>
                    (InBracket(t) /\ wire'.speed = ClaimedSpeed(tr[t][Len(tr[t])].pin))
        /\ speed' # speed => \A t \in Threads : ~InBracket(t) ]_vars

\* an ST7735 payload moves at 15 MHz after a touch read that left the bus at
\* 1 MHz
C25_Witness ==
    /\ call["w2"].fn = "_raw_touch" /\ pc["w2"] = "ret"
    /\ call["w1"].fn = "_dat" /\ call["w1"].disp = "ST"
    /\ wire.by = "w1"
    /\ wire.speed = 15000000
    /\ Selected = {ST_CS}

\* ------------------------------------------------------------------------
\* SpecChunk: _write_bytes with payloads around the chunk size, every byte
\* followed
\* ------------------------------------------------------------------------
\* lengths: none, one byte, one under a chunk, one and two chunks, one over
ChunkLens == {0, 1, CHUNK - 1, CHUNK, CHUNK + 1, 2 * CHUNK, 2 * CHUNK + 1}

\* n bytes that differ from chunk to chunk
Payload(n) == [i \in 1..n |-> i % 251]

\* _dat(cs, dc, data, speed), that is _write_bytes(cs, dc, True, data, speed)
W_Bytes(t) == \E d \in Displays : \E n \in ChunkLens :
    StartSteps(t, "_dat", d, _dat(CS(d), DC(d), Lit(Payload(n)), SPD(d)))

NextChunk ==
    \E t \in {"w1"} : W_Bytes(t) \/ WriteSteps(t) \/ W_Return(t)

SpecChunk == InitBus /\ [][NextChunk]_vars

\* C26: _write_bytes sends its data in one chip-select bracket, the lock held
\* and the chip-select LOW from the first chunk to the last: each chunk has
\* at most 4096 bytes and starts where the one before it ended, and the
\* chunks put together are the data.
C26_ChunksInOneBracket ==
    \A t \in Threads :
        (call[t].fn = "_dat" /\ tr[t] # <<>>) =>
            LET data == cur[t].bytes
                sent == tr[t][1]
            IN  /\ Len(tr[t]) = 1
                /\ sent.n <= Len(data)
                /\ sent.bytes = SubSeq(data, 1, sent.n)
                /\ (sent.n % 4096 = 0 \/ sent.n = Len(data))
                /\ sent.open => (lock = t /\ gpio[sent.pin] = LOW)
                /\ pc[t] = "ret" => (sent.bytes = data /\ ~sent.open)
                /\ wire.by = t =>
                      /\ wire.n \in 1..4096
                      /\ wire.off % 4096 = 0
                      /\ wire.off + wire.n = sent.n
                      /\ wire.bytes = SubSeq(data, wire.off + 1, wire.off + wire.n)

\* the third chunk of 8193 bytes, the one byte left over, is on the bus
C26_Witness ==
    /\ call["w1"].fn = "_dat"
    /\ wire.by = "w1"
    /\ wire.off = 8192
    /\ wire.n = 1
    /\ wire.bytes = <<8193 % 251>>
    /\ gpio[cur["w1"].pin] = LOW

\* ------------------------------------------------------------------------
\* SpecRgb: one pixel through the encoder of either class
\* ------------------------------------------------------------------------
\* channel values around the bits the masks cut: the 3 low bits of red and
\* blue, the 2 low bits of green
ChanProbe == {0, 3, 7, 252, 255}
\* every triple with at least two channels among the probes, the third free
RgbProbes ==
    { <<r, g, b>> : r \in 0..255, g \in ChanProbe, b \in ChanProbe }
    \cup { <<r, g, b>> : r \in ChanProbe, g \in 0..255, b \in ChanProbe }
    \cup { <<r, g, b>> : r \in ChanProbe, g \in ChanProbe, b \in 0..255 }

InitRgb ==
    /\ DriverIdle /\ MainIdle
    /\ pixel \in RgbProbes
    /\ enc \in Displays
    /\ c565 = -1

\* r, g, b = raw[i*3], raw[i*3+1], raw[i*3+2]; c = ...
RGB_Encode ==
    /\ c565 = -1
    /\ c565' = rgb565(enc, pixel)
    /\ UNCHANGED <<busVars, thVars, cfgVars, envVars, mainVars, pixel, enc>>

NextRgb == RGB_Encode

SpecRgb == InitRgb /\ [][NextRgb]_vars

\* C4: the 16-bit value of a pixel (r, g, b) is (r>>3)<<11 | (g>>2)<<5 | (b>>3):
\* its fields decode to the top 5 bits of red, the top 6 bits of green and the
\* top 5 bits of blue; pure red, green and blue give 0xF800, 0x07E0, 0x001F;
\* the ILI9341 and the ST7735 encoder give the same value.
C4_Rgb565 ==
    c565 # -1 =>
        LET r == pixel[1]
            g == pixel[2]
            b == pixel[3]
        IN  /\ c565 = (r \div 8) * 2048 + (g \div 4) * 32 + (b \div 8)
            /\ c565 \in 0..65535
            /\ c565 \div 2048 = r \div 8
            /\ (c565 \div 32) % 64 = g \div 4
            /\ c565 % 32 = b \div 8
            /\ (pixel = Red => c565 = \hF800)
            /\ (pixel = Green => c565 = \h07E0)
            /\ (pixel = Blue => c565 = \h001F)
            /\ c565 = ILI9341_rgb565(r, g, b)
            /\ c565 = ST7735_rgb565(r, g, b)

\* a pixel with low bits set in every channel has been encoded by the ST7735
C4_Witness == enc = "ST" /\ pixel = <<255, 7, 252>> /\ c565 = \hF83F

\* ------------------------------------------------------------------------
\* SpecPixel: image() on panels of a few pixels, every byte followed
\* ------------------------------------------------------------------------
\* widths and heights of at most MaxPixels pixels in all
SmallDims == { wh \in (1..MaxPixels) \X (1..MaxPixels) : wh[1] * wh[2] <= MaxPixels }

\* frames of the panel's size with every colouring of the palette, and one
\* frame that is a column wider than the panel
FramesFor(wh) ==
    { Frame(wh[1], wh[2], px) : px \in [1..(wh[1] * wh[2]) -> Palette] }
    \cup { Frame(wh[1] + 1, wh[2], [i \in 1..((wh[1] + 1) * wh[2]) |-> Red]) }

\* frames of the real panels' sizes, their pixels not followed: each has the
\* size of one panel and not of the other
CanvasFrames == { Frame(ILI9341_W, ILI9341_H, <<>>), Frame(ST7735_W, ST7735_H, <<>>) }

\* disp.image(frame)
Image_Call(t, d, f) ==
    /\ pc[t] = "idle"
    /\ Begin(t, "image", d, f, "img_enc")
    /\ UNCHANGED <<busVars, envVars, cfgVars, mainVars, rgbVars>>

P_Image(t) == \E d \in Displays : Image_Call(t, d, content)

InitPixel ==
    /\ BusInit /\ ThreadsInit /\ RgbIdle /\ MainIdle
    /\ ready = [d \in Displays |-> TRUE]
    /\ \/ \E wh \in SmallDims :
             /\ panel = [d \in Displays |-> wh]
             /\ content \in FramesFor(wh)
       \/ /\ panel = RealPanels
          /\ content \in CanvasFrames
    /\ cal = DriverCal
    /\ irq = HIGH
    /\ adc = [k \in {TOUCH_X_CMD, TOUCH_Y_CMD} |-> {<<0, 0>>}]

NextPixel ==
    \E t \in {"w1"} :
        \/ P_Image(t) \/ IMG_Encode(t) \/ WriteSteps(t) \/ W_Return(t)

SpecPixel == InitPixel /\ [][NextPixel]_vars

\* the 16-bit value claimed for a pixel
Claimed565(p) == (p[1] \div 8) * 2048 + (p[2] \div 4) * 32 + (p[3] \div 8)

\* C5: in the pixel data of a push, pixel i (row-major, from 0) is at bytes
\* 2i and 2i+1, high byte first; the data of a completed push is W*H*2 bytes;
\* the frame red, green, blue, white is sent as F8 00 07 E0 00 1F FF FF.
C5_PixelBytes ==
    \A t \in Threads :
        (call[t].fn = "image" /\ call[t].img # <<>> /\ Len(tr[t]) = 6) =>
            LET e == tr[t][6]
                img == call[t].img
                n == W(call[t].disp) * H(call[t].disp)
            IN  /\ e.n = Len(e.bytes)
                /\ e.n <= 2 * n
                /\ Len(img) = n
                /\ \A i \in 0..(n - 1) :
                      /\ (2 * i + 1 <= e.n => e.bytes[2 * i + 1] = Claimed565(img[i + 1]) \div 256)
                      /\ (2 * i + 2 <= e.n => e.bytes[2 * i + 2] = Claimed565(img[i + 1]) % 256)
                /\ (~e.open => e.n = 2 * n)
                /\ (~e.open /\ img = <<Red, Green, Blue, White>> =>
                        e.bytes = <<\hF8, \h00, \h07, \hE0, \h00, \h1F, \hFF, \hFF>>)

\* a two-byte big-endian number
Pair(v) == <<v \div 256, v % 256>>

\* the chip-select brackets claimed for a push to d: line level, bytes, length
PushBrackets(d) ==
    << [level |-> LOW, bytes |-> <<\h2A>>, n |-> 1],
       [level |-> HIGH, bytes |-> Pair(0) \o Pair(W(d) - 1), n |-> 4],
       [level |-> LOW, bytes |-> <<\h2B>>, n |-> 1],
       [level |-> HIGH, bytes |-> Pair(0) \o Pair(H(d) - 1), n |-> 4],
       [level |-> LOW, bytes |-> <<\h2C>>, n |-> 1],
       [level |-> HIGH, bytes |-> <<>>, n |-> W(d) * H(d) * 2] >>

\* C6: a push to a display, whatever the size of the frame, performs these
\* transfers and no other, in this order, each in its own chip-select bracket
\* of that display: command 0x2A (data/command LOW), its 4 bytes 0 and W-1 as
\* big-endian pairs (HIGH), command 0x2B, its 4 bytes 0 and H-1, command
\* 0x2C, then W*H*2 bytes of pixel data (HIGH).
C6_PushSequence ==
    \A t \in Threads :
        call[t].fn = "image" =>
            LET d == call[t].disp
                exp == PushBrackets(d)
            IN  /\ Len(tr[t]) <= 6
                /\ \A k \in 1..Len(tr[t]) :
                      LET e == tr[t][k]
                      IN  /\ e.kind = "xfer"
                          /\ e.pin = CS(d)
                          /\ e.level = exp[k].level
                          /\ e.n <= exp[k].n
                          /\ (k <= 5 => IsPrefix(e.bytes, exp[k].bytes))
                          /\ (~e.open => e.n = exp[k].n)
                          /\ (k < Len(tr[t]) => ~e.open)
                /\ (pc[t] = "ret" => Len(tr[t]) = 6 /\ ~tr[t][6].open)

\* a frame of the small panel's size has been pushed to the ILI9341
C6_Witness ==
    /\ pc["w1"] = "ret"
    /\ panel = RealPanels
    /\ call["w1"].disp = "ILI" /\ call["w1"].w = 160
    /\ Len(tr["w1"]) = 6
    /\ tr["w1"][2].bytes = <<0, 0, 1, 63>>
    /\ tr["w1"][6].n = 153600

\* the frame red, green, blue, white has gone out to the ST7735
C5_Witness ==
    /\ pc["w1"] = "ret"
    /\ call["w1"].disp = "ST"
    /\ call["w1"].img = <<Red, Green, Blue, White>>
    /\ Len(tr["w1"]) = 6
    /\ tr["w1"][6].bytes = <<\hF8, \h00, \h07, \hE0, \h00, \h1F, \hFF, \hFF>>

\* ------------------------------------------------------------------------
\* SpecTouch: read_touch with a noisy channel
\* ------------------------------------------------------------------------
\* answers (r[1], r[2]) of a noisy channel: 0, all bits set, 100
ProbeAnswers == << <<0, 0>>, <<\hFF, \hFF>>, <<\h03, \h27>>, <<\h7F, \hF8>>, <<\h40, \h00>> >>
TouchProbes == { ProbeAnswers[i] : i \in 1..NumProbes }

\* pt = read_touch()
ReadTouch_Call(t) ==
    /\ pc[t] = "idle"
    /\ Begin(t, "read_touch", "none", NoFrame, "rt_irq")
    /\ UNCHANGED <<busVars, envVars, cfgVars, mainVars, rgbVars>>

InitTouch ==
    /\ BusInit /\ ThreadsInit /\ RgbIdle /\ MainIdle
    /\ ready = [d \in Displays |-> TRUE]
    /\ panel = RealPanels
    /\ cal = DriverCal
    /\ content = NoFrame
    /\ irq = LOW
    /\ adc \in { [k \in {TOUCH_X_CMD, TOUCH_Y_CMD} |->
                    IF k = noisy THEN TouchProbes ELSE {Answer(2048)}] :
                 noisy \in {TOUCH_X_CMD, TOUCH_Y_CMD} }

NextTouch ==
    \E t \in {"w1"} :
        \/ ReadTouch_Call(t) \/ RT_Irq(t) \/ AcquireSteps(t) \/ RT_Map(t) \/ W_Return(t)

SpecTouch == InitTouch /\ [][NextTouch]_vars

Below(v, x) == Cardinality({ i \in 1..Len(v) : v[i] < x })
AtMost(v, x) == Cardinality({ i \in 1..Len(v) : v[i] <= x })
\* the k-th smallest of the samples v, whatever their order
Kth(v, k) == CHOOSE x \in { v[i] : i \in 1..Len(v) } : Below(v, x) < k /\ AtMost(v, x) >= k
MidMean(v) == (Kth(v, 3) + Kth(v, 4) + Kth(v, 5) + Kth(v, 6)) \div 4

\* C9: a channel value comes from exactly 8 acquisitions; it is the floor of
\* the mean of the 4 middle values of the 8 in ascending order (the 2 smallest
\* and the 2 largest dropped), the same for every order of arrival, and lies
\* between the smallest and the largest sample.
C9_MiddleFourOfEight ==
    \A t \in Threads :
        /\ (pc[t] = "ch_sort" =>
                /\ Len(vals[t]) = 8
                /\ Len(tr[t]) = 8 * (Len(chv[t]) + 1))
        /\ (pc[t] \in {"ch_lock", "rt_map", "ret"} /\ Len(chv[t]) >= 1 /\ vals[t] # <<>> =>
                LET m == chv[t][Len(chv[t])]
                IN  /\ Len(vals[t]) = 8
                    /\ m = MidMean(vals[t])
                    /\ m >= Kth(vals[t], 1)
                    /\ m <= Kth(vals[t], 8))

\* eight samples that arrived out of order have been reduced
C9_Witness ==
    /\ pc["w1"] = "rt_map"
    /\ vals["w1"] = << 8191, 0, 100, 100, 0, 8191, 100, 0 >>
    /\ chv["w1"] = << 2048, 75 >>

\* C27: each acquisition sends the channel's command byte and 2 zero bytes,
\* and the sample made of the 2 bytes that come back, ((r1 << 8) | r2) >> 3,
\* is a 12-bit value, 0..4095, whatever the 2 bytes are.
C27_TwelveBitSample ==
    \A t \in Threads :
        /\ \A k \in 1..Len(tr[t]) :
              (tr[t][k].kind = "acq" /\ ~tr[t][k].open) =>
                  /\ tr[t][k].n = 3
                  /\ tr[t][k].bytes \in {<<TOUCH_X_CMD, 0, 0>>, <<TOUCH_Y_CMD, 0, 0>>}
        /\ \A i \in 1..Len(vals[t]) : vals[t][i] \in 0..4095

\* ------------------------------------------------------------------------
\* SpecCal: read_touch under every calibration profile, steady samples
\* ------------------------------------------------------------------------
\* (x_min, x_max, y_min, y_max): the driver's, a narrow one, the full range
CalRanges == { <<CAL_X_MIN, CAL_X_MAX, CAL_Y_MIN, CAL_Y_MAX>>,
               <<100, 200, 300, 4000>>,
               <<0, 4095, 0, 4095>> }

CalProfiles ==
    { [x_min |-> r[1], x_max |-> r[2], y_min |-> r[3], y_max |-> r[4],
       swap |-> s, flip_x |-> fx, flip_y |-> fy, irq_high |-> ih] :
      r \in CalRanges, s \in BOOLEAN, fx \in BOOLEAN, fy \in BOOLEAN, ih \in BOOLEAN }

\* raw values at, between and beyond the calibration extremes
AxisProbes(lo, hi) == {lo, hi, (lo + hi) \div 2, Max(0, lo - 1), hi + 1, 8191}

InitCal ==
    /\ BusInit /\ ThreadsInit /\ RgbIdle /\ MainIdle
    /\ ready = [d \in Displays |-> TRUE]
    /\ panel = RealPanels
    /\ content = NoFrame
    /\ cal \in CalProfiles
    /\ irq \in {HIGH, LOW}
    /\ \E rx \in AxisProbes(cal.x_min, cal.x_max), ry \in AxisProbes(cal.y_min, cal.y_max) :
          adc = [k \in {TOUCH_X_CMD, TOUCH_Y_CMD} |->
                    IF (k = TOUCH_X_CMD) # cal.swap THEN {Answer(rx)} ELSE {Answer(ry)}]

NextCal ==
    \E t \in {"w1"} :
        \/ ReadTouch_Call(t) \/ RT_Irq(t) \/ AcquireSteps(t) \/ RT_Map(t) \/ W_Return(t)

SpecCal == InitCal /\ [][NextCal]_vars

\* C8: when the interrupt line says "no contact" (HIGH, or LOW under
\* TOUCH_IRQ_ACTIVE_HIGH), read_touch returns None at once: it does not take
\* the lock, does not change the bus speed, drives no line and moves no byte.
C8_NoContactNoBus ==
    [][ \A t \in Threads :
            (pc[t] = "rt_irq" /\ NoContact /\ pc'[t] # pc[t]) =>
                /\ pc'[t] = "ret"
                /\ res'[t] = NoPoint
                /\ tr'[t] = <<>>
                /\ UNCHANGED <<lock, speed, gpio, spi, wire>> ]_vars

\* a read with the line LOW under TOUCH_IRQ_ACTIVE_HIGH has returned None
C8_Witness ==
    /\ pc["w1"] = "ret"
    /\ call["w1"].fn = "read_touch"
    /\ cal.irq_high /\ irq = LOW
    /\ res["w1"] = NoPoint
    /\ speed = SPI_INIT_SPD

\* C10: a returned point has 0 <= x <= 319 and 0 <= y <= 239 for any raw
\* values; a raw value (after the optional swap) at the calibration minimum or
\* maximum maps to the first or last pixel of its axis, the two exchanged
\* under the axis' flip, so the four extremes map to the four corners.
C10_PointOnScreen ==
    \A t \in Threads :
        (call[t].fn = "read_touch" /\ pc[t] = "ret" /\ res[t] # NoPoint) =>
            LET rx == IF cal.swap THEN chv[t][2] ELSE chv[t][1]
                ry == IF cal.swap THEN chv[t][1] ELSE chv[t][2]
                x == res[t][1]
                y == res[t][2]
            IN  /\ x \in 0..319
                /\ y \in 0..239
                /\ (rx = cal.x_min => x = IF cal.flip_x THEN 319 ELSE 0)
                /\ (rx = cal.x_max => x = IF cal.flip_x THEN 0 ELSE 319)
                /\ (ry = cal.y_min => y = IF cal.flip_y THEN 239 ELSE 0)
                /\ (ry = cal.y_max => y = IF cal.flip_y THEN 0 ELSE 239)

\* both raw values at their maximum, axes swapped and x flipped
C10_Witness ==
    /\ pc["w1"] = "ret"
    /\ cal.swap /\ cal.flip_x /\ ~cal.flip_y
    /\ chv["w1"] = <<cal.y_max, cal.x_max>>
    /\ res["w1"] = <<0, 239>>

\* ------------------------------------------------------------------------
\* SpecDegenerate: read_touch when a calibration range is a single value
\* ------------------------------------------------------------------------
\* x_max == x_min, y_max == y_min, both
DegenerateRanges == { <<2000, 2000, CAL_Y_MIN, CAL_Y_MAX>>,
                      <<CAL_X_MIN, CAL_X_MAX, 2000, 2000>>,
                      <<2000, 2000, 2000, 2000>> }

Degenerate(k) == k.x_max = k.x_min \/ k.y_max = k.y_min

\* the module loaded with such constants: nothing at import looks at them
InitDegenerate ==
    /\ BusInit /\ ThreadsInit /\ RgbIdle /\ MainIdle
    /\ ready = [d \in Displays |-> TRUE]
    /\ panel = RealPanels
    /\ content = NoFrame
    /\ cal \in { [x_min |-> r[1], x_max |-> r[2], y_min |-> r[3], y_max |-> r[4],
                  swap |-> s, flip_x |-> fx, flip_y |-> fy, irq_high |-> ih] :
                 r \in DegenerateRanges, s \in BOOLEAN, fx \in BOOLEAN, fy \in BOOLEAN,
                 ih \in BOOLEAN }
    /\ irq \in {HIGH, LOW}
    /\ \E rx \in {1999, 2000, 2001}, ry \in {2000, 2100} :
          adc = [k \in {TOUCH_X_CMD, TOUCH_Y_CMD} |->
                    IF k = TOUCH_X_CMD THEN {Answer(rx)} ELSE {Answer(ry)}]

SpecDegenerate == InitDegenerate /\ [][NextCal]_vars

\* C11: with x_max == x_min or y_max == y_min configured, the profile is
\* refused at setup: no touch sample is taken and none is mapped to a point.
C11_DegenerateRangeRejected ==
    Degenerate(cal) =>
        \A t \in Threads : call[t].fn = "read_touch" => (tr[t] = <<>> /\ res[t] = NoPoint)

\* ------------------------------------------------------------------------
\* SpecHit: hit_test on region lists and points
\* ------------------------------------------------------------------------
\* overlapping, nested and disjoint rectangles on a small grid
ProbeRegions == { Region(1, 1, 3, 3, "a"), Region(2, 2, 4, 4, "b"), Region(0, 0, 1, 1, "c") }

RECURSIVE ListsUpTo(_, _)
\* the lists of at most n elements of S
ListsUpTo(S, n) ==
    IF n = 0 THEN { <<>> }
    ELSE LET shorter == ListsUpTo(S, n - 1)
         IN  shorter \cup { Append(l, e) : l \in shorter, e \in S }

\* the lists hit_test is given: lists of probe rectangles, and the three
\* lists of the program
RegionLists ==
    ListsUpTo(ProbeRegions, MaxRegions)
    \cup { DASHBOARD_PIE_REGION, BACK_REGION, TileRects, TileRects \o BACK_REGION }

\* the points of the small grid, and points on and next to the bounds of the
\* program's regions
HitPoints ==
    ((0..5) \X (0..5))
    \cup { <<14, 82>>, <<96, 162>>, <<13, 82>>, <<97, 162>>, <<14, 81>>, <<96, 163>>,
           <<50, 228>>, <<100, 240>>, <<0, 222>>, <<3, 221>>, <<101, 230>>,
           <<157, 129>>, <<158, 129>>, <<163, 135>>, <<314, 234>>, <<160, 132>> }

InitHit ==
    /\ DriverIdle /\ RgbIdle
    /\ mpc = "off"
    /\ RouterInit /\ ClockInit /\ CycleInit
    /\ pt \in HitPoints
    /\ regions \in RegionLists
    /\ hit = "unset"

\* hit_test(x, y, regions)
HIT_Test ==
    /\ hit = "unset"
    /\ hit' = hit_test(pt[1], pt[2], regions)
    /\ UNCHANGED <<busVars, thVars, cfgVars, envVars, rgbVars, mpc, pt, uiVars, clkVars,
                   cycVars, regions, held>>

NextHit == HIT_Test

SpecHit == InitHit /\ [][NextHit]_vars

\* the regions of the list whose rectangle, bounds included, holds the point
Holding(p, rs) ==
    { i \in 1..Len(rs) :
        rs[i][1] <= p[1] /\ p[1] <= rs[i][3] /\ rs[i][2] <= p[2] /\ p[2] <= rs[i][4] }

\* C12: hit_test returns the payload of the first region, in list order,
\* whose rectangle holds the point with all four bounds inclusive, and None
\* when no region holds it; of overlapping regions the earlier one wins.
C12_FirstRegionWins ==
    hit # "unset" =>
        LET on == Holding(pt, regions)
        IN  /\ (on = {} => hit = "None")
            /\ (on # {} =>
                    \E i \in on :
                        /\ \A j \in on : i <= j
                        /\ hit = regions[i][5])

\* a point on the corner shared by two overlapping rectangles, the later
\* listed first
C12_Witness ==
    /\ regions = << Region(2, 2, 4, 4, "b"), Region(1, 1, 3, 3, "a") >>
    /\ pt = <<3, 3>>
    /\ hit = "b"

\* ------------------------------------------------------------------------
\* SpecRouter: handle_touch on every router state and a set of points
\* ------------------------------------------------------------------------
\* points inside, on the bounds of, between and outside the regions
RouterPoints ==
    { <<50, 120>>, <<14, 82>>, <<96, 162>>, <<13, 82>>, <<97, 162>>, <<14, 81>>, <<96, 163>>,
      <<80, 80>>, <<240, 80>>, <<80, 180>>, <<240, 180>>, <<160, 80>>, <<80, 132>>,
      <<50, 228>>, <<3, 230>>, <<0, 222>>, <<100, 239>>, <<101, 236>>, <<200, 238>>,
      <<160, 10>>, <<0, 0>>, <<319, 239>> }

\* the router states: the clean flag is set on SystemCare only, render_apps
\* has stored its rectangles whenever the screen is Apps, a focus session may
\* have been started on any screen
InitRouter ==
    /\ DriverIdle /\ RgbIdle /\ ClockInit /\ CycleInit /\ HitIdle
    /\ mpc = "off"
    /\ pt \in RouterPoints
    /\ screen \in Screens
    /\ apps_rects \in (IF screen = SCREEN_APPS THEN {TileRects} ELSE {<<>>, TileRects})
    /\ clean_done \in (IF screen = SCREEN_SYSMON THEN BOOLEAN ELSE {FALSE})
    /\ focus_active \in BOOLEAN
    /\ focus_elapsed_mins \in {0, 8}
    /\ focus_message = ""
    /\ changed = "none"

\* changed = handle_touch(x, y)
R_HandleTouch ==
    /\ changed = "none"
    /\ Route(pt[1], pt[2])
    /\ UNCHANGED <<busVars, thVars, cfgVars, envVars, rgbVars, mpc, pt, clkVars, cycVars,
                   hitVars, held>>

NextRouter == R_HandleTouch

SpecRouter == InitRouter /\ [][NextRouter]_vars

\* the fields of the router state the claims speak of
routerState == <<screen, clean_done, focus_active, focus_elapsed_mins, focus_message>>

\* the point lies in the rectangle (x0, y0)-(x1, y1), bounds included
Inside(p, x0, y0, x1, y1) == x0 <= p[1] /\ p[1] <= x1 /\ y0 <= p[2] /\ p[2] <= y1

\* the back region, (0, 222)-(100, 240)
InBack(p) == Inside(p, 0, 222, 100, 240)

\* C13: on Dashboard a routed touch inside (14,82)-(96,162) sets the screen to
\* Apps and handle_touch returns True; a routed touch outside it leaves screen,
\* clean flag and focus fields as they are and handle_touch returns False.
C13_DashboardOpensApps ==
    [][ (screen = SCREEN_DASHBOARD /\ changed' # changed) =>
            IF Inside(pt, 14, 82, 96, 162)
            THEN /\ screen' = SCREEN_APPS
                 /\ changed' = "True"
            ELSE /\ UNCHANGED routerState
                 /\ changed' = "False" ]_vars

\* the corner (96, 162) of the region has been touched on Dashboard
C13_Witness ==
    /\ pt = <<96, 162>>
    /\ screen = SCREEN_APPS
    /\ changed = "True"
    /\ apps_rects = <<>>

\* the four tiles of the Apps screen, as the claim names them
InEmailsTile(p) == Inside(p, 6, 30, 157, 129)
InFocusTile(p) == Inside(p, 163, 30, 314, 129)
InBriefTile(p) == Inside(p, 6, 135, 157, 234)
InSysmonTile(p) == Inside(p, 163, 135, 314, 234)

\* C14: on Apps a routed touch inside a tile sets the screen to the tile's
\* screen, also where the tile overlaps the back region; a touch inside no
\* tile but inside the back region sets the screen to Dashboard; any other
\* touch leaves the state as it is.
C14_AppsTilesThenBack ==
    [][ (screen = SCREEN_APPS /\ changed' # changed) =>
            IF InEmailsTile(pt) THEN screen' = SCREEN_EMAILS /\ changed' = "True"
            ELSE IF InFocusTile(pt) THEN screen' = SCREEN_FOCUS /\ changed' = "True"
            ELSE IF InBriefTile(pt) THEN screen' = SCREEN_BRIEF /\ changed' = "True"
            ELSE IF InSysmonTile(pt) THEN screen' = SCREEN_SYSMON /\ changed' = "True"
            ELSE IF InBack(pt) THEN screen' = SCREEN_DASHBOARD /\ changed' = "True"
            ELSE UNCHANGED routerState /\ changed' = "False" ]_vars

\* a touch where the Brief tile and the back region overlap has opened Brief
C14_Witness ==
    /\ pt = <<50, 228>>
    /\ InBriefTile(pt) /\ InBack(pt)
    /\ screen = SCREEN_BRIEF
    /\ changed = "True"
    /\ apps_rects = TileRects
    /\ ~focus_active

\* the screens behind the tiles
SubScreens == {SCREEN_BRIEF, SCREEN_EMAILS, SCREEN_SYSMON, SCREEN_FOCUS}

\* C15: on Brief, Emails, SystemCare and Focus a routed touch inside the back
\* region sets the screen to Dashboard; leaving Focus with a session active
\* ends the session in the same step: focus_active false, elapsed minutes 0.
C15_BackCancelsSession ==
    [][ (screen \in SubScreens /\ changed' # changed /\ InBack(pt)) =>
            /\ screen' = SCREEN_DASHBOARD
            /\ changed' = "True"
            /\ (screen = SCREEN_FOCUS /\ focus_active) =>
                    (~focus_active' /\ focus_elapsed_mins' = 0) ]_vars

\* a running session with 8 minutes on it has been ended by the back tap
C15_Witness ==
    /\ pt = <<3, 230>>
    /\ screen = SCREEN_DASHBOARD
    /\ changed = "True"
    /\ focus_message = "Session ended."
    /\ ~focus_active
    /\ focus_elapsed_mins = 0
    /\ apps_rects = TileRects

\* C16: on SystemCare a routed touch off the back region sets clean_done when
\* it was false, the screen staying, and changes nothing when it was true; a
\* touch on the back region clears clean_done and sets the screen to
\* Dashboard.  On no other screen does a touch set clean_done.
C16_CleanFlag ==
    [][ (changed' # changed) =>
            /\ (screen = SCREEN_SYSMON /\ ~InBack(pt) /\ ~clean_done) =>
                    (clean_done' /\ screen' = screen /\ changed' = "True")
            /\ (screen = SCREEN_SYSMON /\ ~InBack(pt) /\ clean_done) =>
                    (UNCHANGED routerState /\ changed' = "False")
            /\ (screen = SCREEN_SYSMON /\ InBack(pt)) =>
                    (~clean_done' /\ screen' = SCREEN_DASHBOARD)
            /\ (screen # SCREEN_SYSMON) => ~(clean_done' /\ ~clean_done) ]_vars

\* a tap on the content of SystemCare has set the flag, the screen staying
C16_Witness ==
    /\ pt = <<160, 80>>
    /\ screen = SCREEN_SYSMON
    /\ clean_done
    /\ changed = "True"

\* ------------------------------------------------------------------------
\* Spec: main() of ui-both-displays.py on the hardware
\* ------------------------------------------------------------------------
\* positions of main() outside the try block and inside "while True"
SetupPcs == {"init_ili", "init_st"}
LoopPcs == {"tick", "focus", "poll", "touch", "build", "ili", "st", "sleep"}

\* render_*() draw on ili_canvas(), render_st_status() on st_canvas()
IliFrame == Frame(ILI9341_W, ILI9341_H, <<>>)
StFrame == Frame(ST7735_W, ST7735_H, <<>>)

\* the variables main() leaves alone outside its loop body
appVars == <<uiVars, clkVars, cycVars, hitVars, held, rgbVars>>

\* disp = ILI9341()
M_InitILI ==
    /\ mpc = "start"
    /\ pc["main"] = "idle"
    /\ Begin("main", "init", "ILI", NoFrame, "init")
    /\ mpc' = "init_ili"
    /\ UNCHANGED <<busVars, envVars, cfgVars, pt, appVars>>

\* st = ST7735()
M_InitST ==
    /\ mpc = "init_ili"
    /\ pc["main"] = "ret"
    /\ Begin("main", "init", "ST", NoFrame, "init")
    /\ mpc' = "init_st"
    /\ UNCHANGED <<busVars, envVars, cfgVars, pt, appVars>>

\* GPIO.setup(ILI_BL, GPIO.OUT); bl = GPIO.PWM(ILI_BL, 500); bl.start(100)
M_Backlight ==
    /\ mpc = "init_st"
    /\ pc["main"] = "ret"
    /\ Forget("main")
    /\ gpio' = [gpio EXCEPT ![ILI_BL] = HIGH]
    /\ mpc' = "tick"
    /\ UNCHANGED <<lock, speed, spi, wire, ready, envVars, cfgVars, pt, appVars>>

\* loop_start = _time.time(); state.tick_time()
M_Tick ==
    /\ mpc = "tick"
    /\ loop_start' = clock
    /\ cyc' = <<"time">>
    /\ mpc' = "focus"
    /\ UNCHANGED <<busVars, thVars, envVars, cfgVars, pt, uiVars, clock, last_touch_ms,
                   focus_last_tick, stVars, built, shown, hitVars, held, rgbVars>>

\* tick_focus()
M_Focus ==
    /\ mpc = "focus"
    /\ tick_focus
    /\ cyc' = Append(cyc, "focus")
    /\ mpc' = "poll"
    /\ UNCHANGED <<busVars, thVars, envVars, cfgVars, pt, screen, apps_rects, clean_done,
                   changed, clock, last_touch_ms, loop_start, stVars, built, shown, hitVars, held,
                   rgbVars>>

\* pt = read_touch(), the call
M_ReadTouch ==
    /\ mpc = "poll"
    /\ pc["main"] = "idle"
    /\ Begin("main", "read_touch", "none", NoFrame, "rt_irq")
    /\ cyc' = Append(cyc, "poll")
    /\ mpc' = "touch"
    /\ UNCHANGED <<busVars, envVars, cfgVars, pt, uiVars, clkVars, built, shown, hitVars, held,
                   rgbVars>>

\* pt = read_touch(), the result; if pt: now_ms = _time.time() * 1000;
\* if now_ms - last_touch_ms > DEBOUNCE_MS: last_touch_ms = now_ms;
\* changed = handle_touch(x, y)
M_Touched ==
    /\ mpc = "touch"
    /\ pc["main"] = "ret"
    /\ pt' = res["main"]
    /\ last_touch_ms' = Stamped(res["main"], clock)
    /\ IF Accepts(res["main"], clock)
       THEN /\ Route(res["main"][1], res["main"][2])
            /\ cyc' = Append(cyc, "route")
       ELSE UNCHANGED <<uiVars, cyc>>
    /\ held' = IF screen' # screen THEN held + 1 ELSE held
    /\ Forget("main")
    /\ mpc' = "build"
    /\ UNCHANGED <<busVars, envVars, cfgVars, clock, focus_last_tick, loop_start, stVars, built,
                   shown, hitVars, rgbVars>>

\* a plausible slip: the rectangles render_apps() returns are dropped
M_PushILI_NoRects ==
    /\ mpc = "build"
    /\ pc["main"] = "idle"
    /\ build_ili_frame \notin Raising
    /\ built' = build_ili_frame
    /\ cyc' = Append(cyc, "frame")
    /\ content' = IliFrame
    /\ Begin("main", "image", "ILI", IliFrame, "img_enc")
    /\ mpc' = "ili"
    /\ UNCHANGED <<busVars, envVars, panel, cal, pt, uiVars, clkVars, shown, hitVars, held,
                   rgbVars>>

\* disp.image(build_ili_frame()): the frame of the current screen is built,
\* render_apps() hands out its tile rectangles, and the push begins
M_PushILI ==
    /\ mpc = "build"
    /\ pc["main"] = "idle"
    /\ build_ili_frame \notin Raising
    /\ built' = build_ili_frame
    /\ apps_rects' = IF screen = SCREEN_APPS THEN TileRects ELSE apps_rects
    /\ cyc' = Append(cyc, "frame")
    /\ content' = IliFrame
    /\ Begin("main", "image", "ILI", IliFrame, "img_enc")
    /\ mpc' = "ili"
    /\ UNCHANGED <<busVars, envVars, panel, cal, pt, screen, clean_done, focus_active,
                   focus_elapsed_mins, focus_message, changed, clkVars, shown, hitVars, held,
                   rgbVars>>

\* build_ili_frame() raises: render_sysmon() is handed deck = None, since
\* deck_stats is {} and nothing fills it, and _safe() tests "k in None"
M_BuildRaises ==
    /\ mpc = "build"
    /\ pc["main"] = "idle"
    /\ build_ili_frame \in Raising
    /\ pc' = [pc EXCEPT !["main"] = "exc"]
    /\ cyc' = Append(cyc, "frame")
    /\ UNCHANGED <<busVars, call, queue, cur, idx, vals, rbuf, chv, res, tr, envVars,
                   cfgVars, mpc, pt, uiVars, clkVars, built, shown, hitVars, held, rgbVars>>

\* the push has returned after d ms
Pushed(d) ==
    /\ clock' = clock + d
    /\ now' = clock + d
    /\ shown' = built
    /\ cyc' = Append(cyc, "push")
    /\ UNCHANGED <<last_touch_ms, focus_last_tick, loop_start, last_st_update, built>>

\* now = _time.time(); if now - last_st_update >= ST_REFRESH_S:
\* st.image(build_st_frame())
M_PushST ==
    /\ mpc = "ili"
    /\ pc["main"] = "ret"
    /\ \E d \in PushTimes : Due(clock + d, last_st_update) /\ Pushed(d)
    /\ content' = StFrame
    /\ Begin("main", "image", "ST", StFrame, "img_enc")
    /\ mpc' = "st"
    /\ UNCHANGED <<busVars, envVars, panel, cal, pt, uiVars, hitVars, held, rgbVars>>

\* the ST7735 is not due in this cycle
M_SkipST ==
    /\ mpc = "ili"
    /\ pc["main"] = "ret"
    /\ \E d \in PushTimes : ~Due(clock + d, last_st_update) /\ Pushed(d)
    /\ Forget("main")
    /\ mpc' = "sleep"
    /\ UNCHANGED <<busVars, envVars, cfgVars, pt, uiVars, hitVars, held, rgbVars>>

\* last_st_update = now
M_StDone ==
    /\ mpc = "st"
    /\ pc["main"] = "ret"
    /\ Forget("main")
    /\ last_st_update' = now
    /\ mpc' = "sleep"
    /\ UNCHANGED <<busVars, envVars, cfgVars, pt, uiVars, clock, last_touch_ms, focus_last_tick,
                   loop_start, now, cycVars, hitVars, held, rgbVars>>

\* elapsed = _time.time() - loop_start; sleep_t = max(0.0, frame_interval -
\* elapsed); if sleep_t: _time.sleep(sleep_t); and the next cycle
M_Sleep ==
    /\ mpc = "sleep"
    /\ clock - Epoch < MaxTime
    /\ clock' = clock + sleep_t(clock - loop_start)
    /\ mpc' = "tick"
    /\ UNCHANGED <<busVars, thVars, envVars, cfgVars, pt, uiVars, last_touch_ms,
                   focus_last_tick, loop_start, stVars, cycVars, hitVars, held, rgbVars>>

\* Ctrl-C: KeyboardInterrupt is raised in the main thread wherever it is
M_Interrupt ==
    /\ mpc \in SetupPcs \cup LoopPcs
    /\ pc["main"] \notin {"exc", "int"}
    /\ lock' = IF lock = "main" THEN "free" ELSE lock
    /\ wire' = IF lock = "main" THEN NoWire ELSE wire
    /\ pc' = [pc EXCEPT !["main"] = "int"]
    /\ queue' = [queue EXCEPT !["main"] = <<>>]
    /\ cur' = [cur EXCEPT !["main"] = NoStep]
    /\ idx' = [idx EXCEPT !["main"] = 0]
    /\ vals' = [vals EXCEPT !["main"] = <<>>]
    /\ rbuf' = [rbuf EXCEPT !["main"] = <<0, 0>>]
    /\ chv' = [chv EXCEPT !["main"] = <<>>]
    /\ tr' = [tr EXCEPT !["main"] = <<>>]
    /\ UNCHANGED <<speed, gpio, spi, ready, call, res, envVars, cfgVars, mainVars, rgbVars>>

\* an exception reaches the try block: "except KeyboardInterrupt" takes that
\* one only; finally: bl.stop(); _spi.close(); GPIO.cleanup().  Any other
\* exception goes on out of main() after the finally block.
M_Finally ==
    /\ mpc \in LoopPcs
    /\ pc["main"] \in {"exc", "int"}
    /\ spi' = "closed"
    /\ gpio' = [p \in OutPins |-> "IN"]
    /\ mpc' = "exit"
    /\ UNCHANGED <<lock, speed, wire, ready, thVars, envVars, cfgVars, pt, appVars>>

\* an exception in ILI9341() or ST7735(), before the try block: main() is
\* left with no clean-up
M_Crash ==
    /\ mpc \in SetupPcs
    /\ pc["main"] \in {"exc", "int"}
    /\ mpc' = "crashed"
    /\ UNCHANGED <<busVars, thVars, envVars, cfgVars, pt, appVars>>

InitMain ==
    /\ BusInit /\ ThreadsInit /\ RgbIdle
    /\ ready = [d \in Displays |-> FALSE]
    /\ panel = RealPanels
    /\ cal = DriverCal
    /\ content = NoFrame
    /\ irq = HIGH
    /\ adc = PenAt(PenRest)
    /\ mpc = "start"
    /\ pt = NoPoint
    /\ RouterInit /\ ClockInit /\ CycleInit /\ HitIdle

MainSteps ==
    \/ M_InitILI \/ M_InitST \/ M_Backlight \/ M_Tick \/ M_Focus \/ M_ReadTouch
    \/ M_Touched \/ M_PushILI \/ M_BuildRaises \/ M_PushST \/ M_SkipST \/ M_StDone
    \/ M_Sleep \/ M_Interrupt \/ M_Finally \/ M_Crash

DriverSteps(t) ==
    \/ Init_Enter(t) \/ GpioStep(t) \/ SleepStep(t) \/ IMG_Encode(t)
    \/ RT_Irq(t) \/ RT_Map(t) \/ WriteSteps(t) \/ AcquireSteps(t)

Next == MainSteps \/ DriverSteps("main") \/ PenMoves

Init == InitMain

Spec == Init /\ [][Next]_vars

\* ------------------------------------------------------------------------
\* SpecFocus: tick_focus() over the cycles of a focus session
\* ------------------------------------------------------------------------
\* the moment the session is started, by state.focus_active = True
SessionStart == Epoch

\* what a cycle can last, in ms
TickGaps == {20000, 59900, 60000}

\* the session has just been started: the loop is about to call tick_focus();
\* _focus_last_tick is 0.0 as at module load, or the time of an advance of a
\* session before this one
InitFocus ==
    /\ DriverIdle /\ RgbIdle /\ HitIdle
    /\ mpc = "focus" /\ pt = NoPoint
    /\ screen \in {SCREEN_DASHBOARD, SCREEN_FOCUS}
    /\ apps_rects = <<>>
    /\ clean_done = FALSE
    /\ changed = "none"
    /\ focus_active = TRUE
    /\ focus_elapsed_mins \in {0, 8, focus_session_mins - 1}
    /\ focus_message = ""
    /\ clock = SessionStart
    /\ loop_start = SessionStart
    /\ last_st_update = SessionStart /\ now = SessionStart
    /\ last_touch_ms = 0
    /\ focus_last_tick \in {0, SessionStart - 90000, SessionStart - 20000}
    /\ cyc = <<"time">> /\ built = "none" /\ shown = "none" /\ held = 0

\* the rest of the cycle, and loop_start = _time.time(); state.tick_time() of
\* the next one
F_Cycle ==
    /\ mpc = "poll"
    /\ clock - SessionStart < MaxSession
    /\ \E d \in TickGaps : clock' = clock + d
    /\ loop_start' = clock'
    /\ cyc' = <<"time">>
    /\ mpc' = "focus"
    /\ UNCHANGED <<busVars, thVars, envVars, cfgVars, pt, uiVars, last_touch_ms,
                   focus_last_tick, stVars, built, shown, hitVars, held, rgbVars>>

NextFocus == M_Focus \/ F_Cycle

SpecFocus == InitFocus /\ [][NextFocus]_vars

\* C20: focus_elapsed_mins changes only in tick_focus() of a running session,
\* by one, when 60 s have passed since the last advance, and never before 60 s
\* of the session have passed; a tick of a running session with 60 s passed
\* since the last advance does advance it.
C20_FocusTick ==
    [][ /\ focus_elapsed_mins' # focus_elapsed_mins =>
              /\ focus_active
              /\ mpc = "focus"
              /\ focus_elapsed_mins' = focus_elapsed_mins + 1
              /\ clock - focus_last_tick >= 60000
              /\ clock - SessionStart >= 60000
        /\ (mpc = "focus" /\ mpc' = "poll" /\ focus_active
                /\ clock - focus_last_tick >= 60000) =>
              focus_elapsed_mins' = focus_elapsed_mins + 1 ]_vars

\* C3: a bus write that fails during a push does not stop the main loop: the
\* loop goes on with the later cycles.
C3_LoopSurvivesWriteFault ==
    (pc["main"] = "exc" /\ call["main"].fn = "image") => mpc \in LoopPcs

RECURSIVE TableBrackets(_, _)
\* the chip-select brackets of a register table: each command (data/command
\* LOW), then its payload if it has one (HIGH)
TableBrackets(regs, i) ==
    IF i > Len(regs) THEN <<>>
    ELSE <<[level |-> LOW, bytes |-> <<regs[i].cmd>>]>>
         \o (IF regs[i].data # <<>> THEN <<[level |-> HIGH, bytes |-> regs[i].data]>> ELSE <<>>)
         \o TableBrackets(regs, i + 1)

Brackets(s) == SelectSeq(s, LAMBDA e : e.kind = "xfer")

\* C7: a display is brought up in the order reset, initialization, ready: its
\* reset line goes LOW then HIGH before its first command; the commands of its
\* table are sent in the table's order, 0x01 first and 0x29 last, none skipped;
\* no pixel-write command 0x2C and no pixel data is sent to it before its
\* display-on command 0x29 has been sent.
C7_BringUpOrder ==
    \A t \in Threads :
        /\ (call[t].fn = "init" /\ pc[t] \notin {"exc", "int"} =>
                LET d == call[t].disp
                    exp == TableBrackets(IF d = "ILI" THEN ILI9341_regs ELSE ST7735_regs, 1)
                    xs == Brackets(tr[t])
                IN  /\ Len(xs) <= Len(exp)
                    /\ exp[1].bytes = <<\h01>>
                    /\ exp[Len(exp)].bytes = <<\h29>>
                    /\ \A k \in 1..Len(xs) :
                          /\ xs[k].pin = CS(d)
                          /\ xs[k].level = exp[k].level
                          /\ IsPrefix(xs[k].bytes, exp[k].bytes)
                          /\ (~xs[k].open => xs[k].bytes = exp[k].bytes)
                          /\ (k < Len(xs) => ~xs[k].open)
                    /\ (xs # <<>> =>
                          /\ tr[t][1].kind = "gpio" /\ tr[t][1].pin = RST(d) /\ tr[t][1].level = LOW
                          /\ tr[t][2].kind = "sleep"
                          /\ tr[t][3].kind = "gpio" /\ tr[t][3].pin = RST(d) /\ tr[t][3].level = HIGH
                          /\ tr[t][4].kind = "sleep"
                          /\ tr[t][5].kind = "xfer")
                    /\ (pc[t] = "ret" => Len(xs) = Len(exp))
                    /\ (ready[d] <=> (Len(xs) = Len(exp) /\ xs[Len(exp)].bytes = <<\h29>>)))
        /\ \A d \in Displays :
              ~ready[d] =>
                  /\ ~(call[t].fn = "image" /\ call[t].disp = d)
                  /\ \A k \in 1..Len(tr[t]) :
                        ~(/\ tr[t][k].kind = "xfer"
                          /\ tr[t][k].pin = CS(d)
                          /\ tr[t][k].level = LOW
                          /\ tr[t][k].bytes = <<\h2C>>)

\* both displays are up and the first frame is going out to the ILI9341
C7_Witness ==
    /\ ready["ILI"] /\ ready["ST"]
    /\ mpc = "ili"
    /\ call["main"].fn = "image"
    /\ Len(tr["main"]) = 6
    /\ tr["main"][6].n = CHUNK

\* the M_Touched step of a cycle in which the sampler reported a point
Reported == mpc = "touch" /\ mpc' = "build" /\ res["main"] # NoPoint

\* the step routes a touch
Routes == cyc' = Append(cyc, "route")

\* C17: a reported touch is routed only when it comes at least 300 ms after
\* the touch routed before it: any two touches routed one after the other are
\* at least 300 ms apart; a touch 250 ms after the last routed one is not
\* routed, a touch 350 ms after it is.  (A touch exactly 300 ms after it is
\* not routed either; the claim does not say it is.)
C17_Debounce ==
    [][ /\ Routes => (Reported /\ last_touch_ms' = clock
                        /\ clock - last_touch_ms >= 300)
        /\ last_touch_ms' # last_touch_ms => (Routes /\ last_touch_ms' - last_touch_ms >= 300)
        /\ (Reported /\ clock - last_touch_ms = 250) =>
                (~Routes /\ UNCHANGED <<routerState, last_touch_ms>>)
        /\ (Reported /\ clock - last_touch_ms = 350) =>
                (Routes /\ last_touch_ms' = clock) ]_vars

\* a touch at the start opened Apps, a second touch 350 ms later opened Emails
C17_Witness ==
    /\ mpc = "build"
    /\ screen = SCREEN_EMAILS
    /\ last_touch_ms = Epoch + 350
    /\ clock = Epoch + 350
    /\ pt = <<50, 120>>

\* C18: a reported touch that is not routed changes neither the router state
\* nor last_touch_ms, and no later step makes up for it: the router state
\* changes only in the step that routes the point polled in the same cycle,
\* and changes to what handle_touch gives for that point.
C18_RejectedTouchIgnored ==
    [][ /\ (Reported /\ ~Routes) => UNCHANGED <<routerState, apps_rects, last_touch_ms>>
        /\ (routerState' # routerState \/ last_touch_ms' # last_touch_ms) => Routes
        /\ Routes =>
              /\ Reported
              /\ call["main"].fn = "read_touch"
              /\ cyc = <<"time", "focus", "poll">>
              /\ pt' = res["main"]
              /\ LET n == handle_touch(res["main"][1], res["main"][2])
                 IN  routerState' = <<n.screen, n.clean_done, n.focus_active,
                                      n.focus_elapsed_mins, n.focus_message>> ]_vars

\* on Apps, 250 ms after the touch that opened it, a touch on the Emails tile
\* has been dropped
C18_Witness ==
    /\ mpc = "build"
    /\ pt = <<50, 120>>
    /\ screen = SCREEN_APPS
    /\ last_touch_ms = Epoch
    /\ clock = Epoch + 250
    /\ cyc = <<"time", "focus", "poll">>

\* the steps of a cycle in which a touch is routed, and of one without
RoutedCycle == <<"time", "focus", "poll", "route", "frame", "push">>
PlainCycle == <<"time", "focus", "poll", "frame", "push">>

\* C19: the steps of a cycle come in the order time refresh, focus tick,
\* touch poll, at most one router call, frame request, primary push: one
\* poll a cycle, the router state changed by at most one routed touch a
\* cycle, and the frame requested and pushed is that of the screen the
\* cycle's touch led to.
C19_CycleOrder ==
    [][ /\ IsPrefix(cyc', RoutedCycle) \/ IsPrefix(cyc', PlainCycle)
        /\ mpc' \in {"st", "sleep"} => cyc' \in {RoutedCycle, PlainCycle}
        /\ (mpc' = "ili" /\ pc'["main"] \notin {"exc", "int"}) =>
                (cyc'[Len(cyc')] = "frame" /\ built' = screen')
        /\ (cyc' # cyc /\ cyc'[Len(cyc')] = "push") => shown' = screen'
        /\ routerState' # routerState => Routes ]_vars

\* a cycle whose touch opened Apps has pushed the Apps frame
C19_Witness ==
    /\ mpc = "sleep"
    /\ cyc = RoutedCycle
    /\ screen = SCREEN_APPS
    /\ shown = SCREEN_APPS
    /\ apps_rects = TileRects

\* C21: every cycle that runs to its end has polled the touch sampler and
\* pushed the ILI9341 once, with or without a push of the ST7735; the ST7735
\* is pushed only when at least 5 s have passed since its last push, so two
\* pushes of it one after the other are at least 5 s apart.
C21_Cadence ==
    [][ /\ (mpc # "sleep" /\ mpc' = "sleep") => cyc' \in {RoutedCycle, PlainCycle}
        /\ (mpc = "ili" /\ mpc' = "st") =>
              /\ cyc' \in {RoutedCycle, PlainCycle}
              /\ now' - last_st_update >= 5000
        /\ (mpc = "ili" /\ mpc' = "sleep") => now' - last_st_update < 5000
        /\ last_st_update' # last_st_update =>
              /\ mpc = "st"
              /\ last_st_update' = now
              /\ last_st_update' - last_st_update >= 5000 ]_vars

\* the ST7735 has been pushed a second time, exactly 5 s after the first
C21_Witness ==
    /\ mpc = "sleep"
    /\ last_st_update = Epoch + 5030
    /\ now = last_st_update
    /\ cyc \in {RoutedCycle, PlainCycle}

\* C22: at the end of a cycle the loop sleeps max(0, 100 ms - the time the
\* cycle took), nothing when the cycle took 100 ms or more; the starts of two
\* cycles one after the other are at least 100 ms apart.
C22_SleepRemainder ==
    [][ /\ (mpc = "sleep" /\ mpc' = "tick") =>
              clock' - clock = (IF clock - loop_start >= 100 THEN 0
                                ELSE 100 - (clock - loop_start))
        /\ (mpc = "tick" /\ mpc' = "focus" /\ cyc # <<>>) =>
              loop_start' - loop_start >= 100 ]_vars

\* a cycle that took 30 ms has been followed by a sleep of 70 ms and the
\* start of the next cycle
C22_Witness ==
    /\ mpc = "focus"
    /\ now = Epoch + 30
    /\ clock = Epoch + 100
    /\ loop_start = Epoch + 100
    /\ cyc = <<"time">>

\* build_ili_frame() has raised in the running cycle: the exception belongs
\* to no driver call
BuildRaised == pc["main"] = "exc" /\ call["main"] = NoCall

\* C23: when build_ili_frame() raises, that cycle's push is skipped, nothing
\* of the frame goes to the display, and the loop goes on: main() stays in
\* its loop.
C23_BuildFaultSkipsPush ==
    BuildRaised =>
        /\ mpc \in LoopPcs
        /\ shown # screen
        /\ wire = NoWire

\* main() has ended, one way or another
Ended == mpc \in {"exit", "crashed"}

\* C24: however main() ends (Ctrl-C, an exception in the loop, an exception
\* while a display is initialized), the bus handle has been closed and the
\* GPIO lines released before it is gone.
C24_CleanupOnEveryExit ==
    Ended => (spi = "closed" /\ \A p \in OutPins : gpio[p] = "IN")

\* C30: build_ili_frame() returns a frame for every screen the router
\* reaches from the initial AppState: the frame request of a cycle never
\* ends in an exception, in particular not on SystemCare.
C30_EveryScreenRenders ==
    \A sc \in Screens :
        (screen = sc /\ mpc = "build" /\ cyc # <<>> /\ cyc[Len(cyc)] = "frame") =>
            pc["main"] # "exc"

\* the command brackets (data/command LOW) of a call's trace
Commands(s) == SelectSeq(s, LAMBDA e : e.kind = "xfer" /\ e.level = LOW)

\* C28: command 0x36 goes to a display once, in its initialization, and never
\* after it: an initialization that has returned has sent it exactly once, to
\* its own display; once the loop runs no display is initialized again, and a
\* push sends no command but 0x2A, 0x2B and 0x2C.
C28_OrientationOnce ==
    \A t \in Threads :
        LET cmds == Commands(tr[t])
        IN  /\ (call[t].fn = "init" /\ pc[t] = "ret") =>
                  /\ Cardinality({k \in 1..Len(cmds) : cmds[k].bytes = <<\h36>>}) = 1
                  /\ \A k \in 1..Len(cmds) : cmds[k].pin = CS(call[t].disp)
            /\ (mpc \in LoopPcs \ {"tick"}) => call[t].fn \in {"none", "read_touch", "image"}
            /\ call[t].fn = "image" =>
                  \A k \in 1..Len(cmds) :
                      /\ cmds[k].bytes \in {<<>>, <<\h2A>>, <<\h2B>>, <<\h2C>>}
                      /\ cmds[k].pin = CS(call[t].disp)
            /\ call[t].fn \notin {"init", "image"} => cmds = <<>>

\* both displays initialized, and a push of the ILI9341 has returned with
\* its three commands sent
C28_Witness ==
    /\ ready["ILI"] /\ ready["ST"]
    /\ mpc = "ili"
    /\ call["main"].fn = "image"
    /\ pc["main"] = "ret"
    /\ Len(Commands(tr["main"])) = 3
    /\ cyc = PlainCycle \/ cyc = <<"time", "focus", "poll", "frame">>

\* C31: during one continuous contact, the interrupt line staying active and
\* the reported point not moving, the screen changes at most once, however
\* long the contact lasts.
C31_OneChangePerContact == held <= 1

\* C32: every screen stays escapable by touch: while the loop stands on a
\* screen other than Dashboard, some touch point within 0..319 x 0..239 is
\* routed to Dashboard, and the loop is there to accept it: it has not been
\* ended by the frame request of the screen it stands on.
C32_ScreensEscapable ==
    (mpc \in LoopPcs /\ screen # SCREEN_DASHBOARD) =>
        /\ \E p \in RouterPoints :
              /\ p[1] \in 0..(ILI_W - 1) /\ p[2] \in 0..(ILI_H - 1)
              /\ handle_touch(p[1], p[2]).screen = SCREEN_DASHBOARD
        /\ ~BuildRaised

\* ------------------------------------------------------------------------
\* SpecSession: the ticks and touches of the loop during a focus session
\* ------------------------------------------------------------------------
\* the minutes a session can have on it when it is activated
SessionMinutes == {0, 8, focus_session_mins - 2, focus_session_mins - 1}

\* the points the pen is put down on: the disk chart, the back corner, a
\* tile, the content
SessionPoints == { <<50, 120>>, <<3, 230>>, <<240, 80>>, <<160, 10>> }

\* a session has just been activated, on a screen whose frame the loop has
\* pushed, and the loop is about to call tick_focus()
InitSession ==
    /\ DriverIdle /\ RgbIdle /\ HitIdle
    /\ mpc = "focus" /\ pt = NoPoint
    /\ screen \in Screens \ Raising
    /\ apps_rects \in (IF screen = SCREEN_APPS THEN {TileRects} ELSE {<<>>, TileRects})
    /\ clean_done = FALSE
    /\ changed = "none"
    /\ focus_active = TRUE
    /\ focus_elapsed_mins \in SessionMinutes
    /\ focus_message = ""
    /\ clock = SessionStart
    /\ loop_start = SessionStart
    /\ last_st_update = SessionStart /\ now = SessionStart
    /\ last_touch_ms = 0
    /\ focus_last_tick \in {0, SessionStart - 20000}
    /\ cyc = <<"time">> /\ built = screen /\ shown = screen /\ held = 0

\* pt = read_touch() and, for an accepted point, changed = handle_touch(x, y)
S_Touch ==
    /\ mpc = "poll"
    /\ \E p \in SessionPoints \cup {NoPoint} :
          /\ pt' = p
          /\ last_touch_ms' = Stamped(p, clock)
          /\ IF Accepts(p, clock)
             THEN Route(p[1], p[2]) /\ cyc' = Append(Append(cyc, "poll"), "route")
             ELSE UNCHANGED uiVars /\ cyc' = Append(cyc, "poll")
    /\ mpc' = "build"
    /\ UNCHANGED <<busVars, thVars, envVars, cfgVars, clock, focus_last_tick, loop_start,
                   stVars, built, shown, hitVars, held, rgbVars>>

\* disp.image(build_ili_frame()), when the renderer returns
S_Build ==
    /\ mpc = "build"
    /\ build_ili_frame \notin Raising
    /\ built' = build_ili_frame
    /\ shown' = build_ili_frame
    /\ apps_rects' = IF screen = SCREEN_APPS THEN TileRects ELSE apps_rects
    /\ cyc' = Append(Append(cyc, "frame"), "push")
    /\ mpc' = "sleep"
    /\ UNCHANGED <<busVars, thVars, envVars, cfgVars, pt, screen, clean_done, focus_active,
                   focus_elapsed_mins, focus_message, changed, clkVars, hitVars, held,
                   rgbVars>>

\* the cycles until the next one that takes notice, and its loop_start =
\* _time.time(); state.tick_time()
S_Cycle ==
    /\ mpc = "sleep"
    /\ clock - SessionStart < MaxSession
    /\ \E d \in TickGaps : clock' = clock + d
    /\ loop_start' = clock'
    /\ cyc' = <<"time">>
    /\ mpc' = "focus"
    /\ UNCHANGED <<busVars, thVars, envVars, cfgVars, pt, uiVars, last_touch_ms,
                   focus_last_tick, stVars, built, shown, hitVars, held, rgbVars>>

NextSession == M_Focus \/ S_Touch \/ S_Build \/ S_Cycle

SpecSession == InitSession /\ [][NextSession]_vars

\* C34: through the ticks and touches of a session activated with fewer than
\* focus_session_mins minutes on it, focus_elapsed_mins never exceeds
\* focus_session_mins, focus_active implies focus_elapsed_mins <
\* focus_session_mins, and the tick in which focus_elapsed_mins reaches
\* focus_session_mins sets focus_active to false.
C34_SessionBounded ==
    /\ [](/\ focus_elapsed_mins <= focus_session_mins
          /\ focus_active => focus_elapsed_mins < focus_session_mins)
    /\ [][ (focus_elapsed_mins' = focus_session_mins
                /\ focus_elapsed_mins # focus_session_mins) =>
              (focus_active /\ mpc = "focus" /\ ~focus_active') ]_vars

\* the session has run out in a tick, and a touch on the back corner has
\* then changed the screen and left its minutes as they are
C34_Witness ==
    /\ focus_elapsed_mins = focus_session_mins
    /\ ~focus_active
    /\ focus_message = "Session complete!"
    /\ screen = SCREEN_DASHBOARD
    /\ pt = <<3, 230>>
    /\ changed = "True"

\* C33: in every reachable state of the hardware loop clean_done is true only
\* while the current screen is SystemCare, and every entry into SystemCare
\* starts with clean_done false.
C33_CleanOnlyOnSysmon ==
    /\ [](clean_done => screen = SCREEN_SYSMON)
    /\ [][ (screen' = SCREEN_SYSMON /\ screen # SCREEN_SYSMON) => ~clean_done' ]_vars

\* the loop has just entered SystemCare from the tile on Apps
C33_Witness ==
    /\ mpc = "build"
    /\ screen = SCREEN_SYSMON
    /\ shown = SCREEN_APPS
    /\ pt = <<240, 180>>
    /\ changed = "True"
    /\ ~clean_done

\* C35: handle_touch returns True exactly when it changed the router state
\* (the screen, clean_done or the focus fields) and False exactly when it
\* left every field of the state as it was.
C35_ReturnTellsChange ==
    [][ (changed' # changed) =>
            /\ changed' \in {"True", "False"}
            /\ (changed' = "True") <=> (routerState' # routerState)
            /\ (changed' = "False") <=> (<<routerState, apps_rects>>' = <<routerState, apps_rects>>)
      ]_vars

\* a tap on the content of SystemCare after the cleaning has changed nothing
\* and handle_touch has returned False
C35_Witness ==
    /\ pt = <<160, 80>>
    /\ screen = SCREEN_SYSMON
    /\ clean_done
    /\ changed = "False"
    /\ mpc = "off"

\* C36: whenever a touch is routed while the current screen is Apps, the
\* stored apps_rects are the four tile rectangles of the Apps frame that was
\* pushed last: never an empty list, never the rectangles of another frame.
C36_AppsRegionsCurrent ==
    [][ (mpc = "touch" /\ mpc' = "build" /\ screen = SCREEN_APPS
            /\ Accepts(res["main"], clock)) =>
              /\ apps_rects = TileRects
              /\ Len(apps_rects) = Len(APPS_TILES)
              /\ built = SCREEN_APPS
              /\ shown = SCREEN_APPS ]_vars

\* a touch on Apps has been tested against the tiles and has opened Focus
C36_Witness ==
    /\ mpc = "build"
    /\ cyc = <<"time", "focus", "poll", "route">>
    /\ shown = SCREEN_APPS
    /\ apps_rects = TileRects
    /\ pt = <<240, 80>>
    /\ screen = SCREEN_FOCUS
    /\ changed = "True"

\* the moves of the screen the router is said to make
Moves(from, to) ==
    \/ to = from
    \/ from = SCREEN_DASHBOARD /\ to = SCREEN_APPS
    \/ from = SCREEN_APPS /\ to \in SubScreens \cup {SCREEN_DASHBOARD}
    \/ from \in SubScreens /\ to = SCREEN_DASHBOARD

\* C37: in every reachable state the current screen is one of the six screen
\* ids, and it is Dashboard until the loop starts; the screen changes only
\* when an accepted touch is routed, and one accepted touch moves Dashboard to
\* Apps, Apps to Emails, Focus, Brief, SystemCare or Dashboard, any of Brief,
\* Emails, SystemCare, Focus to Dashboard, or leaves the screen as it is:
\* that holds of the touch that was routed and of every point that could be
\* routed next.
C37_ScreenMoves ==
    /\ [](/\ screen \in Screens
          /\ mpc \in {"start"} \cup SetupPcs => screen = SCREEN_DASHBOARD
          /\ \A p \in RouterPoints : Moves(screen, handle_touch(p[1], p[2]).screen))
    /\ [][ screen' # screen =>
              /\ mpc = "touch" /\ Accepts(res["main"], clock)
              /\ screen' = handle_touch(res["main"][1], res["main"][2]).screen
              /\ Moves(screen, screen') ]_vars

\* the loop has moved from Dashboard to Apps and from Apps to Brief, and from
\* Brief a touch on the back corner would lead back to Dashboard
C37_Witness ==
    /\ mpc = "ili"
    /\ screen = SCREEN_BRIEF
    /\ built = SCREEN_BRIEF
    /\ shown = SCREEN_APPS
    /\ pt = <<50, 228>>
    /\ held = 1
    /\ handle_touch(3, 230).screen = SCREEN_DASHBOARD
    /\ handle_touch(160, 80).screen = SCREEN_BRIEF

====
